---- MODULE Spec2Model ----
(***************************************************************************)
(* Model of the plugin generator service (ashiqtasdid/gemni-api):          *)
(*   - POST /api/create       src/src/routes/apiRoutes.ts (createRoutes)   *)
(*   - compilePlugin          src/src/routes/apiRoutes.ts                  *)
(*   - the build script       src/unnamed/part_003 (bash.sh)               *)
(*   - POST /api/fix          src/src/routes/apiRoutes.ts (fixRoutes)      *)
(*   - GET /api/build/status  src/src/routes/apiRoutes.ts (buildRoutes)    *)
(* Spec follows one create request from its arrival to its response; the   *)
(* build script it spawns is a second process whose steps are the          *)
(* script's commands.  RouteSpec follows a sequence of create and fix      *)
(* requests that share the cache, each up to its response or to the start  *)
(* of its compilation.  BuildDirSpec follows the build directories of      *)
(* create requests that overlap in time.  FunctionSpec applies the text    *)
(* functions of the routes (the extraction of the files of a model        *)
(* answer, the processing of a file by its type, the extraction of the    *)
(* file list) and verifyToken (src/src/middlewares/authMiddleware.ts,     *)
(* src/unnamed/part_002) to one input each; a text is a sequence of       *)
(* tokens.  The model calls, the Maven runs,                              *)
(* the file system and the clients are the environment: their outcomes     *)
(* are chosen nondeterministically.                                        *)
(***************************************************************************)
EXTENDS Integers, FiniteSets, Sequences, TLC

(* ---------------------------------------------------------------------- *)
(* Bounds and program constants                                            *)
(* ---------------------------------------------------------------------- *)

\* MAX_AI_FIX_ATTEMPTS=5 (part_003:157)
MAX_AI_FIX_ATTEMPTS == 5

\* paths of the file tree (build descriptor, manifest, one source file)
Paths == {"pom.xml", "plugin.yml", "Main.java"}

\* the file list used when every extraction heuristic fails (apiRoutes.ts:899-903)
DefaultStructure == {"pom.xml", "plugin.yml", "Main.java"}

\* archives Maven can leave under target/: the packaged artifact and the
\* pre-shade copy the shade plugin keeps next to it
JarNames == {"plugin.jar", "original-plugin.jar"}

\* content version of a path that is not on disk
Absent == -1

\* number of requests a behaviour of RouteSpec serves one after the other
MaxRequests == 2

\* last reading of the millisecond clock in a behaviour of BuildDirSpec and
\* of the clock of the cache in a behaviour of CacheSpec
MaxClock == 2

\* stdTTL of pluginCache (lines 18-19; 3600 s unless the environment sets
\* CACHE_TTL), in readings of the clock of the model
CACHE_TTL == 1

(* ---------------------------------------------------------------------- *)
(* State                                                                   *)
(* ---------------------------------------------------------------------- *)

VARIABLES
  serverUp,          \* the node process is alive
  rpc,               \* position of the create handler / compilePlugin
  req,               \* body of the request being handled
  resp,              \* HTTP response of the request being handled
  pluginCache,       \* entry of pluginCache under hashString(prompt)
  fileStructure,     \* file list the generation works from
  usedDefault,       \* fileStructure is the hard-coded default list
  files,             \* paths of the generated tree (files / validatedFiles)
  modelError,        \* a model call of this request threw (error, timeout)
  genPath,           \* how the tree was produced: "multi" or "fallback"
  manifest,          \* the content of plugin.yml in files, NoManifest without one
  nested,            \* the request the build script has sent to /api/fix, and its answer
  statusAnswer,      \* the status the last GET /api/build/status/:buildId was answered with
  compilationResult, \* CompileResult compilePlugin resolved with
  modelCalls,        \* history: model calls issued for the request being handled
  cachedOnArrival,   \* history: the cache held the request's key when it arrived
  fixCache,          \* entries of pluginCache under the keys of fix requests
  fixSent,           \* what the fix route sent to the model for this request
  served,            \* requests answered before the one being handled
  builds,            \* concurrent create requests: phase, buildId, outputDir
  now,               \* Date.now()
  expires,           \* pluginCache: the time each stored key lives up to
  staleOnArrival,    \* history: the cache held the request's key when it
                     \* arrived, and the time of the key was over
  fnArg,             \* the input of the function of the routes under study
  fnRes,             \* what the function made of it
  spc,               \* position of the build script
  tree,              \* outputDir: content version of every source path
  target,            \* outputDir/target: archives present
  resultFile,        \* outputDir/build_result.json
  dirs,              \* directories on disk: "outputDir", "target"
  exitCode,          \* exit status of the script (-1: not exited)
  stdoutData,        \* what the script printed (tags of its error and verdict lines)
  AI_FIX_ATTEMPTS,   \* script variable
  BUILD_SUCCESS,     \* script variable
  FIX_RESPONSE,      \* script variable: answer of the fix API
  BUILD_ERRORS,      \* script variable: the error transcript, identified by
                     \* the tree Maven compiled to produce it
  mvnCalls,          \* history: Maven invocations of this run
  packageCalls,      \* history: build_plugin invocations (mvn clean package -B)
  captureCalls,      \* history: mvn clean compile -e invocations
  degradedCalls,     \* history: mvn clean package -Dmaven.shade.skip=true
  fixRequests,       \* history: requests sent to /api/fix
  allMvnFailed,      \* history: every Maven invocation so far exited non-zero
  allFixOk,          \* history: every fix request so far was answered with success
  lastEvent          \* history: what the last step of compilePlugin or of the script did

fnVars == <<fnArg, fnRes>>
nestVars == <<nested, statusAnswer>>
routeVars == <<fixCache, fixSent, served, builds, now, expires, staleOnArrival,
              fnVars, nestVars>>
reqVars == <<serverUp, rpc, req, resp, pluginCache, fileStructure,
             usedDefault, files, modelError, genPath, manifest, compilationResult,
             modelCalls, cachedOnArrival, routeVars>>
diskVars == <<tree, target, resultFile, dirs>>
scriptVars == <<spc, exitCode, stdoutData, AI_FIX_ATTEMPTS, BUILD_SUCCESS, FIX_RESPONSE,
                BUILD_ERRORS>>
histVars == <<mvnCalls, packageCalls, captureCalls, degradedCalls, fixRequests,
              allMvnFailed, allFixOk, lastEvent>>
scriptState == <<diskVars, scriptVars, histVars>>
vars == <<reqVars, diskVars, scriptVars, histVars>>

NoReq == [present |-> FALSE]
NoResp == [sent |-> FALSE]
NoEntry == [hit |-> FALSE]
NoResult == [resolved |-> FALSE]
NoFile == [exists |-> FALSE]
NoFix == [received |-> FALSE]
NoPrompt == [called |-> FALSE]
EmptyCache == [k \in {} |-> {}]
NoId == <<>>
NoBuild == [phase |-> "none"]
NoArg == [fn |-> "none"]
NoRes == [done |-> FALSE]

\* create requests that can be in flight together
Requests == {"r1", "r2"}
EmptyTree == [p \in Paths |-> Absent]

\* the tree holds no plugin.yml
NoManifest == <<"[no manifest]">>

\* no status has been asked for
NoStatus == [status |-> "none"]

\* the script has no request to /api/fix in flight
NoNested == [state |-> "none"]

\* outcomes of one model call: usable text, unusable text (empty, malformed,
\* no blocks), or a thrown error (network, quota, timeout)
ModelOutcomes == {"ok", "malformed", "error"}

Idle ==
  /\ serverUp = TRUE
  /\ rpc = "idle"
  /\ req = NoReq
  /\ resp = NoResp
  /\ pluginCache = NoEntry
  /\ fileStructure = {}
  /\ usedDefault = FALSE
  /\ files = {}
  /\ modelError = FALSE
  /\ genPath = "none"
  /\ manifest = NoManifest
  /\ nested = NoNested
  /\ statusAnswer = NoStatus
  /\ compilationResult = NoResult
  /\ modelCalls = 0
  /\ cachedOnArrival = FALSE
  /\ fixCache = EmptyCache
  /\ fixSent = NoPrompt
  /\ served = 0
  /\ builds = [r \in Requests |-> NoBuild]
  /\ now = 0
  /\ expires = EmptyCache
  /\ staleOnArrival = FALSE
  /\ spc = "none"
  /\ tree = EmptyTree
  /\ target = {}
  /\ resultFile = NoFile
  /\ dirs = {}
  /\ exitCode = -1
  /\ stdoutData = {}
  /\ AI_FIX_ATTEMPTS = 0
  /\ BUILD_SUCCESS = FALSE
  /\ FIX_RESPONSE = NoFix
  /\ BUILD_ERRORS = EmptyTree
  /\ mvnCalls = 0
  /\ packageCalls = 0
  /\ captureCalls = 0
  /\ degradedCalls = 0
  /\ fixRequests = 0
  /\ allMvnFailed = TRUE
  /\ allFixOk = TRUE
  /\ lastEvent = "none"

\* the state after the start of the server
Init ==
  /\ Idle
  /\ fnArg = NoArg
  /\ fnRes = NoRes

(* ---------------------------------------------------------------------- *)
(* POST /api/create: validation, async branch, cache check                 *)
(* ---------------------------------------------------------------------- *)

\* the key of the prompt of create requests, line 744 (hashString, lines
\* 96-98); the prompt is taken to differ from the text every fix key is
\* made from
CreateKey == <<"md5", "prompt", "create">>

\* a store whose keys live for ever
expired_Never(times, key, t) == FALSE

\* node-cache: a stored key whose time is over at time t; get deletes it and
\* returns nothing
expired(times, key, t) == key \in DOMAIN times /\ times[key] < t

\* node-cache: the store without a key
cacheDel(cache, key) == [k \in DOMAIN cache \ {key} |-> cache[k]]

\* node-cache: the times after a set at time t
setTime(times, key, t) ==
  [k \in DOMAIN times \cup {key} |-> IF k = key THEN t + CACHE_TTL ELSE times[k]]

\* formatApiResponse(success, message, data): the envelope of 400 and 202
formatApiResponse(code, success, message) ==
  [sent |-> TRUE, code |-> code, success |-> success, message |-> message]

\* the handler with the async branch in front of the validation of the prompt
CreateReceive_AsyncFirst ==
  /\ serverUp
  /\ rpc = "idle"
  /\ \E r \in [present : {TRUE}, prompt : BOOLEAN, compile : BOOLEAN,
               async : BOOLEAN, buildId : {"given", "none"}] :
       /\ req' = r
       /\ cachedOnArrival' =
            (r.prompt /\ pluginCache.hit /\ ~expired(expires, CreateKey, now))
       /\ staleOnArrival' =
            (r.prompt /\ pluginCache.hit /\ expired(expires, CreateKey, now))
       /\ UNCHANGED <<serverUp, fileStructure, usedDefault, files,
                      modelError, genPath, manifest, compilationResult, modelCalls,
                      fixCache, fixSent, served, builds, now, fnVars, nestVars, scriptState>>
       /\ IF r.async
            THEN /\ resp' = [sent |-> TRUE, code |-> 202, success |-> TRUE,
                             message |-> "started", status |-> "pending"]
                 /\ rpc' = "done"
                 /\ UNCHANGED <<pluginCache, expires>>
            ELSE IF ~r.prompt
              THEN /\ resp' = formatApiResponse(400, FALSE, "no_prompt")
                   /\ rpc' = "done"
                   /\ UNCHANGED <<pluginCache, expires>>
              ELSE IF pluginCache.hit /\ ~expired(expires, CreateKey, now)
                THEN /\ resp' = [sent |-> TRUE, code |-> 200, success |-> TRUE,
                                 message |-> "cached", data |-> pluginCache.files]
                     /\ rpc' = "done"
                     /\ UNCHANGED <<pluginCache, expires>>
                ELSE /\ resp' = NoResp
                     /\ rpc' = "name"
                     /\ pluginCache' = NoEntry
                     /\ expires' = cacheDel(expires, CreateKey)

\* createRoutes.post, lines 700-760: the handler up to its first model call
CreateReceive ==
  /\ serverUp
  /\ rpc = "idle"
  /\ \E r \in [present : {TRUE}, prompt : BOOLEAN, compile : BOOLEAN,
               async : BOOLEAN, buildId : {"given", "none"}] :
       /\ req' = r
       /\ cachedOnArrival' =
            (r.prompt /\ pluginCache.hit /\ ~expired(expires, CreateKey, now))
       /\ staleOnArrival' =
            (r.prompt /\ pluginCache.hit /\ expired(expires, CreateKey, now))
       /\ UNCHANGED <<serverUp, fileStructure, usedDefault, files,
                      modelError, genPath, manifest, compilationResult, modelCalls,
                      fixCache, fixSent, served, builds, now, fnVars, nestVars, scriptState>>
       /\ IF ~r.prompt
            THEN /\ resp' = formatApiResponse(400, FALSE, "no_prompt")
                 /\ rpc' = "done"
                 /\ UNCHANGED <<pluginCache, expires>>
            ELSE IF r.async
              THEN /\ resp' = [sent |-> TRUE, code |-> 202, success |-> TRUE,
                               message |-> "started", status |-> "pending"]
                   /\ rpc' = "done"
                   /\ UNCHANGED <<pluginCache, expires>>
              ELSE IF pluginCache.hit /\ ~expired(expires, CreateKey, now)
                THEN /\ resp' = [sent |-> TRUE, code |-> 200, success |-> TRUE,
                                 message |-> "cached", data |-> pluginCache.files]
                     /\ rpc' = "done"
                     /\ UNCHANGED <<pluginCache, expires>>
                ELSE /\ resp' = NoResp
                     /\ rpc' = "name"
                     /\ pluginCache' = NoEntry
                     /\ expires' = cacheDel(expires, CreateKey)

\* the catch of createRoutes.post, lines 1155-1163
ErrorResponse ==
  [sent |-> TRUE, code |-> 500, success |-> FALSE, message |-> "generation_failed"]

(* ---------------------------------------------------------------------- *)
(* POST /api/create: generation phase                                      *)
(* ---------------------------------------------------------------------- *)

\* file lists the file-list call can yield when its answer is usable
FileLists == {DefaultStructure, {"pom.xml", "Main.java"}}

\* trees the multi-file answer can contain (one entry per extracted block):
\* a full tree, a tree without manifest, a tree without build descriptor,
\* a single file
GeneratedTrees ==
  {DefaultStructure, {"pom.xml", "Main.java"}, {"plugin.yml", "Main.java"},
   {"Main.java"}}

\* a thrown model call that no try/catch of the handler encloses reaches
\* the catch of the route (lines 1155-1163)
Abort500 ==
  /\ resp' = ErrorResponse
  /\ rpc' = "done"
  /\ modelError' = TRUE

\* extractPluginName, lines 515-553: the call is inside its own try/catch
ExtractPluginName ==
  /\ serverUp /\ rpc = "name"
  /\ \E o \in ModelOutcomes : modelError' = (modelError \/ o = "error")
  /\ modelCalls' = modelCalls + 1
  /\ rpc' = "parallel"
  /\ UNCHANGED <<serverUp, req, cachedOnArrival, routeVars, resp, pluginCache,
                 fileStructure, usedDefault,
                 files, genPath, manifest, compilationResult, scriptState>>

\* lines 804-813: Promise.all of the refining and the blueprint call; their
\* text is used as it comes
ParallelGeneration ==
  /\ serverUp /\ rpc = "parallel"
  /\ \E o1 \in ModelOutcomes, o2 \in ModelOutcomes :
       IF o1 = "error" \/ o2 = "error"
         THEN Abort500
         ELSE /\ rpc' = "filelist"
              /\ UNCHANGED <<resp, modelError>>
  /\ modelCalls' = modelCalls + 2
  /\ UNCHANGED <<serverUp, req, cachedOnArrival, routeVars, pluginCache,
                 fileStructure, usedDefault, files,
                 genPath, manifest, compilationResult, scriptState>>

\* lines 830-905: the file-list call and the extraction of the list; an
\* answer none of the heuristics can use gives the default list
FileListGeneration ==
  /\ serverUp /\ rpc = "filelist"
  /\ \E o \in ModelOutcomes :
       CASE o = "error" ->
              /\ Abort500
              /\ UNCHANGED <<fileStructure, usedDefault>>
         [] o = "malformed" ->
              /\ fileStructure' = DefaultStructure
              /\ usedDefault' = TRUE
              /\ rpc' = "multifile"
              /\ UNCHANGED <<resp, modelError>>
         [] o = "ok" ->
              /\ \E l \in FileLists : fileStructure' = l
              /\ usedDefault' = FALSE
              /\ rpc' = "multifile"
              /\ UNCHANGED <<resp, modelError>>
  /\ modelCalls' = modelCalls + 1
  /\ UNCHANGED <<serverUp, req, cachedOnArrival, routeVars, pluginCache, files,
                 genPath, manifest, compilationResult,
                 scriptState>>

\* the response of lines 1140-1153 (no compilation results)
GeneratedResponse(data) ==
  [sent |-> TRUE, code |-> 200, success |-> TRUE, message |-> "generated",
   data |-> data,
   buildId |-> IF req.buildId = "given" THEN "given" ELSE "generated",
   jarPath |-> "predicted"]

\* lines 1026-1106 and 1140-1153: the consistency call (inside a try/catch,
\* made when the tree has more than one file; it rewrites contents, never
\* paths), pluginCache.set, and the response when compile is not requested
ConsistencyAndCache ==
  /\ serverUp /\ rpc = "consistency"
  /\ IF Cardinality(files) > 1
       THEN /\ \E o \in ModelOutcomes : modelError' = (modelError \/ o = "error")
            /\ modelCalls' = modelCalls + 1
       ELSE UNCHANGED <<modelError, modelCalls>>
  /\ pluginCache' = [hit |-> TRUE, files |-> files]
  /\ expires' = setTime(expires, CreateKey, now)
  /\ IF req.compile
       THEN /\ rpc' = "validate"
            /\ UNCHANGED resp
       ELSE /\ rpc' = "done"
            /\ resp' = GeneratedResponse(files)
  /\ UNCHANGED <<serverUp, req, cachedOnArrival, fixCache, fixSent, served,
                 builds, now, staleOnArrival, fnVars, nestVars, fileStructure,
                 usedDefault, files, genPath, manifest,
                 compilationResult, scriptState>>

\* validatePluginFiles, lines 264-444: the copy keeps every path; the model
\* call is made when a critical file exists (the main class when the Java
\* source is recognised as one, plugin.yml, pom.xml; lines 373-389) and is
\* inside a try/catch
validatePluginFiles(next) ==
  /\ \E mainClassFound \in BOOLEAN :
       IF \/ "pom.xml" \in files
          \/ "plugin.yml" \in files
          \/ (mainClassFound /\ "Main.java" \in files)
         THEN /\ \E o \in ModelOutcomes : modelError' = (modelError \/ o = "error")
              /\ modelCalls' = modelCalls + 1
         ELSE UNCHANGED <<modelError, modelCalls>>
  /\ rpc' = next
  /\ UNCHANGED <<serverUp, req, cachedOnArrival, routeVars, resp, pluginCache,
                 fileStructure, usedDefault,
                 files, genPath, manifest, compilationResult>>

\* line 1110: validation of the tree before compilePlugin is called
ValidateBeforeCompile ==
  /\ serverUp /\ rpc = "validate"
  /\ validatePluginFiles("cp_setup")
  /\ UNCHANGED scriptState

(* ---------------------------------------------------------------------- *)
(* compilePlugin: the promise executor up to the spawn of the script       *)
(* ---------------------------------------------------------------------- *)

\* an exception thrown inside the async executor of `new Promise(async ...)`
\* (line 117) rejects the executor's own promise, which nobody observes: the
\* promise compilePlugin returned never settles.  Depending on how the node
\* process treats unhandled rejections the request waits forever or the
\* process terminates.
AsyncExecutorThrows ==
  \/ /\ rpc' = "hung"
     /\ UNCHANGED serverUp
  \/ /\ serverUp' = FALSE
     /\ UNCHANGED rpc

\* lines 117-128: buildId, outputDir, mkdirSync, prompt.txt.  A directory
\* named by a generated identifier is new; one named by the request's
\* buildId keeps what an earlier build left in it.
CompileSetup ==
  /\ serverUp /\ rpc = "cp_setup"
  /\ \E fs \in {"ok", "error"} :
       IF fs = "error"
         THEN /\ AsyncExecutorThrows
              /\ lastEvent' = "fs_error"
              /\ UNCHANGED diskVars
         ELSE /\ rpc' = "cp_validate"
              /\ lastEvent' = "dir_created"
              /\ UNCHANGED serverUp
              /\ IF req.buildId = "given"
                   THEN /\ dirs' = dirs \cup {"outputDir"}
                        /\ UNCHANGED <<tree, target, resultFile>>
                   ELSE /\ tree' = EmptyTree
                        /\ target' = {}
                        /\ resultFile' = NoFile
                        /\ dirs' = {"outputDir"}
  /\ UNCHANGED <<req, cachedOnArrival, routeVars, resp, pluginCache, fileStructure,
                 usedDefault, files,
                 modelError, genPath, manifest, compilationResult, modelCalls, scriptVars, mvnCalls,
                 packageCalls, captureCalls, degradedCalls, fixRequests,
                 allMvnFailed, allFixOk>>

\* lines 130-142: the second validation, inside compilePlugin
CompileValidate ==
  /\ serverUp /\ rpc = "cp_validate"
  /\ validatePluginFiles("cp_write")
  /\ UNCHANGED scriptState

\* lines 144-182: the files are written and the script is spawned.  spawn
\* reports a missing shell through an 'error' event; compilePlugin
\* registers no listener for it, so the event is thrown in the process.
CompileWriteAndSpawn ==
  /\ serverUp /\ rpc = "cp_write"
  /\ \E fs \in {"ok", "error"}, sp \in {"started", "enoent"} :
       CASE fs = "error" ->
              /\ AsyncExecutorThrows
              /\ lastEvent' = "fs_error"
              /\ UNCHANGED <<tree, spc>>
         [] fs = "ok" /\ sp = "enoent" ->
              /\ tree' = [p \in Paths |-> IF p \in files THEN 0 ELSE tree[p]]
              /\ serverUp' = FALSE
              /\ lastEvent' = "spawn_error"
              /\ UNCHANGED <<rpc, spc>>
         [] fs = "ok" /\ sp = "started" ->
              /\ tree' = [p \in Paths |-> IF p \in files THEN 0 ELSE tree[p]]
              /\ rpc' = "cp_running"
              /\ spc' = "preflight"
              /\ lastEvent' = "spawned"
              /\ UNCHANGED serverUp
  /\ UNCHANGED <<req, cachedOnArrival, routeVars, resp, pluginCache, fileStructure,
                 usedDefault, files,
                 modelError, genPath, manifest, compilationResult, modelCalls, target, resultFile,
                 dirs, exitCode, stdoutData, AI_FIX_ATTEMPTS, BUILD_SUCCESS,
                 FIX_RESPONSE, BUILD_ERRORS,
                 mvnCalls, packageCalls, captureCalls, degradedCalls, fixRequests,
                 allMvnFailed, allFixOk>>

(* ---------------------------------------------------------------------- *)
(* The build script (part_003)                                             *)
(* ---------------------------------------------------------------------- *)

\* a Maven run that does not return
Hang == [exit |-> -1, jars |-> {}]

\* outcomes of `mvn clean package`: exit status and the archives under
\* target/ afterwards (a failing shade step leaves the plain archive behind)
MvnPackageOutcomes ==
  {[exit |-> 0, jars |-> J] : J \in SUBSET JarNames}
    \cup {[exit |-> 1, jars |-> J] : J \in {{}, {"plugin.jar"}}}
    \cup {Hang}

\* outcomes of `mvn clean compile -e`: nothing is packaged
MvnCompileOutcomes == {[exit |-> 0, jars |-> {}], [exit |-> 1, jars |-> {}], Hang}

\* find_jar_file, lines 92-97: the first archive whose name does not
\* contain "original"; "" when there is none
find_jar_file(jars) ==
  IF "plugin.jar" \in jars THEN "plugin.jar" ELSE ""

\* file sets a fix answer can name: none, one file, several files
FixedFileSets == {{}, {"Main.java"}, {"pom.xml", "Main.java"}}

\* answers curl can hand to the script: a success envelope with the fixed
\* files, or anything else (HTTP 500 of the fix route, 401, empty output of
\* a timed-out curl)
FixResponses ==
  {[received |-> TRUE, status |-> "success", data |-> D] : D \in FixedFileSets}
    \cup {[received |-> TRUE, status |-> "error", data |-> {}]}

\* the target directory after a Maven run: it is there when the run passed
\* or left an archive; a failing run leaves it or not (a descriptor that
\* does not parse fails before anything is created)
TargetDir(o, exists) ==
  /\ exists \in (IF o.exit = 0 \/ o.jars # {} THEN {TRUE} ELSE BOOLEAN)
  /\ dirs' = IF exists THEN dirs \cup {"target"} ELSE dirs \ {"target"}

\* bookkeeping of one Maven invocation
MvnHist(o) ==
  /\ mvnCalls' = mvnCalls + 1
  /\ allMvnFailed' = (allMvnFailed /\ o.exit = 1)

\* `exit n`
Exit(n) ==
  /\ spc' = "exited"
  /\ exitCode' = n

\* lines 15-57: required tools, arguments, plugin directory, pom.xml
ScriptPreflight ==
  /\ spc = "preflight"
  /\ \E toolsOk \in BOOLEAN :
       IF ~toolsOk
         THEN /\ stdoutData' = stdoutData \cup {"missing_tools"}
              /\ Exit(1)
              /\ lastEvent' = "preflight_exit"
         ELSE IF tree["pom.xml"] = Absent
           THEN /\ stdoutData' = stdoutData \cup {"no_pom"}
                /\ Exit(1)
                /\ lastEvent' = "preflight_exit"
           ELSE /\ spc' = "build"
                /\ lastEvent' = "preflight_ok"
                /\ UNCHANGED <<stdoutData, exitCode>>
  /\ UNCHANGED <<reqVars, diskVars, AI_FIX_ATTEMPTS, BUILD_SUCCESS, FIX_RESPONSE,
                 BUILD_ERRORS,
                 mvnCalls, packageCalls, captureCalls, degradedCalls, fixRequests,
                 allMvnFailed, allFixOk>>

\* lines 129-158: the first build_plugin and what follows it
InitialBuild ==
  /\ spc = "build"
  /\ \E o \in MvnPackageOutcomes, exists \in BOOLEAN :
       /\ MvnHist(o)
       /\ packageCalls' = packageCalls + 1
       /\ target' = o.jars
       /\ TargetDir(o, exists)
       /\ lastEvent' = "initial_build"
       /\ CASE o = Hang ->
                 /\ spc' = "hung"
                 /\ UNCHANGED <<resultFile, exitCode, stdoutData, AI_FIX_ATTEMPTS,
                                BUILD_SUCCESS>>
            [] o.exit = 0 /\ find_jar_file(o.jars) # "" ->
                 /\ resultFile' = [exists |-> TRUE, success |-> TRUE,
                                   jarPath |-> find_jar_file(o.jars)]
                 /\ stdoutData' = stdoutData \cup {"jar_path"}
                 /\ Exit(0)
                 /\ UNCHANGED <<AI_FIX_ATTEMPTS, BUILD_SUCCESS>>
            [] o.exit = 0 /\ find_jar_file(o.jars) = "" ->
                 /\ resultFile' = [exists |-> TRUE, success |-> FALSE,
                                   error |-> "jar_not_found"]
                 /\ stdoutData' = stdoutData \cup {"jar_not_found"}
                 /\ Exit(1)
                 /\ UNCHANGED <<AI_FIX_ATTEMPTS, BUILD_SUCCESS>>
            [] o.exit = 1 ->
                 /\ AI_FIX_ATTEMPTS' = 0
                 /\ BUILD_SUCCESS' = FALSE
                 /\ stdoutData' = stdoutData \cup {"build_failed"}
                 /\ spc' = "loop"
                 /\ UNCHANGED <<resultFile, exitCode>>
  /\ UNCHANGED <<reqVars, tree, FIX_RESPONSE, BUILD_ERRORS, captureCalls, degradedCalls,
                 fixRequests, allFixOk>>

\* LoopCondition with the counter compared by -le instead of -lt
LoopCondition_OffByOne == AI_FIX_ATTEMPTS <= MAX_AI_FIX_ATTEMPTS /\ ~BUILD_SUCCESS

\* the test of the while loop, line 161
LoopCondition == AI_FIX_ATTEMPTS < MAX_AI_FIX_ATTEMPTS /\ ~BUILD_SUCCESS

\* the loop has been left: by `break` (line 230) or by its test
LoopLeft == spc = "after_loop" \/ (spc = "loop" /\ ~LoopCondition)

\* CaptureErrors with the transcript captured in the first iteration only
CaptureErrors_Stale ==
  /\ spc = "loop"
  /\ LoopCondition
  /\ AI_FIX_ATTEMPTS' = AI_FIX_ATTEMPTS + 1
  /\ \E o \in MvnCompileOutcomes, exists \in BOOLEAN :
       /\ MvnHist(o)
       /\ target' = o.jars
       /\ TargetDir(o, exists)
       /\ spc' = IF o = Hang THEN "hung" ELSE "request"
  /\ BUILD_ERRORS' = IF AI_FIX_ATTEMPTS = 0 THEN tree ELSE BUILD_ERRORS
  /\ captureCalls' = captureCalls + 1
  /\ lastEvent' = "capture"
  /\ UNCHANGED <<reqVars, tree, resultFile, exitCode, stdoutData, BUILD_SUCCESS,
                 FIX_RESPONSE, packageCalls, degradedCalls, fixRequests, allFixOk>>

\* lines 161-179: the loop is entered, the counter is incremented and the
\* errors are captured with `mvn clean compile -e`
CaptureErrors ==
  /\ spc = "loop"
  /\ LoopCondition
  /\ AI_FIX_ATTEMPTS' = AI_FIX_ATTEMPTS + 1
  /\ \E o \in MvnCompileOutcomes, exists \in BOOLEAN :
       /\ MvnHist(o)
       /\ target' = o.jars
       /\ TargetDir(o, exists)
       /\ spc' = IF o = Hang THEN "hung" ELSE "request"
  /\ BUILD_ERRORS' = tree
  /\ captureCalls' = captureCalls + 1
  /\ lastEvent' = "capture"
  /\ UNCHANGED <<reqVars, tree, resultFile, exitCode, stdoutData, BUILD_SUCCESS,
                 FIX_RESPONSE, packageCalls, degradedCalls, fixRequests, allFixOk>>

\* ApplyFixedFiles that writes the whole tree anew
ApplyFixedFiles_WholeTree(t, data, version) ==
  [p \in Paths |-> IF t[p] # Absent \/ p \in data THEN version ELSE t[p]]

\* lines 200-208: every path of the answer is overwritten with its content
ApplyFixedFiles(t, data, version) ==
  [p \in Paths |-> IF p \in data THEN version ELSE t[p]]

\* ContinueLoop with `exit` in the place of `continue`: a rejected answer
\* ends the script
ContinueLoop_Abort ==
  /\ spc' = "exited"
  /\ lastEvent' = "fix_rejected"
  /\ UNCHANGED <<tree, stdoutData>>

\* lines 190-196: the answer is not a success envelope; the iteration ends
\* (continue) and the loop test is evaluated again
ContinueLoop ==
  /\ spc' = "loop"
  /\ lastEvent' = "fix_rejected"
  /\ UNCHANGED <<tree, stdoutData>>

\* lines 181-208: the request to /api/fix (curl is bounded by --max-time),
\* the validation of the answer and the writing of the fixed files; an
\* answer whose status is not "success" ends the iteration (continue)
FixRound ==
  /\ spc = "request"
  /\ \E r \in FixResponses :
       /\ FIX_RESPONSE' = r
       /\ allFixOk' = (allFixOk /\ r.status = "success")
       /\ IF r.status = "success"
            THEN /\ tree' = ApplyFixedFiles(tree, r.data, AI_FIX_ATTEMPTS)
                 /\ spc' = "rebuild"
                 /\ lastEvent' = "fix_applied"
                 /\ UNCHANGED stdoutData
            ELSE ContinueLoop
  /\ fixRequests' = fixRequests + 1
  /\ UNCHANGED <<reqVars, target, resultFile, dirs, exitCode, stdoutData,
                 AI_FIX_ATTEMPTS, BUILD_SUCCESS, BUILD_ERRORS, mvnCalls,
                 packageCalls, captureCalls, degradedCalls,
                 allMvnFailed>>

\* RebuildSucceeded without BUILD_SUCCESS=true and break: the result is
\* written but the loop goes on
RebuildSucceeded_NoBreak(jar) ==
  /\ resultFile' = [exists |-> TRUE, success |-> TRUE, jarPath |-> jar,
                    fixes |-> AI_FIX_ATTEMPTS]
  /\ stdoutData' = stdoutData \cup {"jar_path"}
  /\ spc' = "loop"
  /\ UNCHANGED BUILD_SUCCESS

\* lines 223-230: the rebuild passed and its archive was found
RebuildSucceeded(jar) ==
  /\ resultFile' = [exists |-> TRUE, success |-> TRUE, jarPath |-> jar,
                    fixes |-> AI_FIX_ATTEMPTS]
  /\ stdoutData' = stdoutData \cup {"jar_path"}
  /\ BUILD_SUCCESS' = TRUE
  /\ spc' = "after_loop"

\* lines 214-245: build_plugin after the fix; BUILD_SUCCESS is set when the
\* build passes and an archive is found
Rebuild ==
  /\ spc = "rebuild"
  /\ \E o \in MvnPackageOutcomes, exists \in BOOLEAN :
       /\ MvnHist(o)
       /\ target' = o.jars
       /\ TargetDir(o, exists)
       /\ CASE o = Hang ->
                 /\ spc' = "hung"
                 /\ UNCHANGED <<resultFile, stdoutData, BUILD_SUCCESS>>
            [] o.exit = 0 /\ find_jar_file(o.jars) # "" ->
                 RebuildSucceeded(find_jar_file(o.jars))
            [] o.exit = 0 /\ find_jar_file(o.jars) = "" ->
                 /\ spc' = "loop"
                 /\ UNCHANGED <<resultFile, stdoutData, BUILD_SUCCESS>>
            [] o.exit = 1 ->
                 /\ spc' = "loop"
                 /\ UNCHANGED <<resultFile, stdoutData, BUILD_SUCCESS>>
  /\ packageCalls' = packageCalls + 1
  /\ lastEvent' = "rebuild"
  /\ UNCHANGED <<reqVars, tree, exitCode, AI_FIX_ATTEMPTS, FIX_RESPONSE, BUILD_ERRORS,
                 captureCalls, degradedCalls, fixRequests, allFixOk>>

\* lines 247-282: the loop is left without BUILD_SUCCESS; one build with
\* -Dmaven.shade.skip=true.  The archive is looked up without excluding
\* "original" (line 260); the script goes on to its end when Maven passes
\* and exits with 1 when it fails.
DegradedBuild ==
  /\ LoopLeft
  /\ ~BUILD_SUCCESS
  /\ \E o \in MvnPackageOutcomes, exists \in BOOLEAN :
       /\ MvnHist(o)
       /\ target' = o.jars
       /\ TargetDir(o, exists)
       /\ CASE o = Hang ->
                 /\ spc' = "hung"
                 /\ UNCHANGED <<resultFile, exitCode, stdoutData>>
            [] o.exit = 0 /\ o.jars # {} ->
                 /\ \E j \in o.jars :
                      resultFile' = [exists |-> TRUE, success |-> TRUE,
                                     jarPath |-> j, noShade |-> TRUE]
                 /\ stdoutData' = stdoutData \cup {"no_shade"}
                 /\ Exit(0)
            [] o.exit = 0 /\ o.jars = {} ->
                 /\ resultFile' = [exists |-> TRUE, success |-> FALSE,
                                   error |-> "no_jar_even_with_shade_skipping"]
                 /\ stdoutData' = stdoutData \cup {"no_shade"}
                 /\ Exit(0)
            [] o.exit = 1 ->
                 /\ resultFile' = [exists |-> TRUE, success |-> FALSE,
                                   error |-> "all_build_attempts_failed"]
                 /\ stdoutData' = stdoutData \cup {"all_failed"}
                 /\ Exit(1)
  /\ degradedCalls' = degradedCalls + 1
  /\ lastEvent' = "degraded"
  /\ UNCHANGED <<reqVars, tree, AI_FIX_ATTEMPTS, BUILD_SUCCESS, FIX_RESPONSE,
                 BUILD_ERRORS,
                 packageCalls, captureCalls, fixRequests, allFixOk>>

\* lines 248 and 285-290: the loop is left with BUILD_SUCCESS; the script
\* runs to its end
ScriptFinish ==
  /\ LoopLeft
  /\ BUILD_SUCCESS
  /\ Exit(0)
  /\ lastEvent' = "finish"
  /\ UNCHANGED <<reqVars, diskVars, stdoutData, AI_FIX_ATTEMPTS, BUILD_SUCCESS,
                 FIX_RESPONSE, BUILD_ERRORS, mvnCalls, packageCalls, captureCalls,
                 degradedCalls,
                 fixRequests, allMvnFailed, allFixOk>>

(* ---------------------------------------------------------------------- *)
(* compilePlugin: the close handler; the response of the compile branch    *)
(* ---------------------------------------------------------------------- *)

\* lines 184-223: build_result.json decides when it exists, otherwise an
\* archive under target/ whose name does not contain "original"
CloseResult ==
  IF resultFile.exists
    THEN [resolved |-> TRUE,
          success |-> resultFile.success,
          jarPath |-> IF "jarPath" \in DOMAIN resultFile THEN resultFile.jarPath ELSE "",
          buildOutput |-> stdoutData,
          buildId |-> req.buildId]
    ELSE [resolved |-> TRUE,
          success |-> (find_jar_file(target) # ""),
          jarPath |-> find_jar_file(target),
          buildOutput |-> stdoutData,
          buildId |-> req.buildId]

\* bashProcess.on('close'), lines 184-223
BashClose ==
  /\ serverUp /\ rpc = "cp_running"
  /\ spc = "exited"
  /\ compilationResult' = CloseResult
  /\ rpc' = "cp_closed"
  /\ spc' = "closed"
  /\ UNCHANGED <<serverUp, req, cachedOnArrival, routeVars, resp, pluginCache,
                 fileStructure, usedDefault,
                 files, modelError, genPath, manifest, modelCalls, diskVars, exitCode, stdoutData,
                 AI_FIX_ATTEMPTS, BUILD_SUCCESS, FIX_RESPONSE, BUILD_ERRORS, histVars>>

\* lines 1118-1133: the response that carries the compilation results
CompiledResponse(result, data) ==
  [sent |-> TRUE, code |-> 200, success |-> TRUE,
   message |-> IF result.success THEN "compiled" ELSE "compilation_failed",
   data |-> data,
   buildId |-> result.buildId,
   buildOutput |-> result.buildOutput,
   jarPath |-> result.jarPath]

\* createRoutes.post resumes after `await compilePlugin(...)`
CreateRespondCompiled ==
  /\ serverUp /\ rpc = "cp_closed"
  /\ resp' = CompiledResponse(compilationResult, files)
  /\ rpc' = "done"
  /\ UNCHANGED <<serverUp, req, cachedOnArrival, routeVars, pluginCache,
                 fileStructure, usedDefault,
                 files, modelError, genPath, manifest, compilationResult, modelCalls,
                 scriptState>>

(* ---------------------------------------------------------------------- *)
(* POST /api/fix                                                           *)
(* ---------------------------------------------------------------------- *)

\* paths a fix request can carry: what collect_file_contents of the build
\* script gathers (*.java, pom.xml, plugin.yml, config.yml)
FixPaths == Paths \cup {"config.yml", "Util.java", "Listener.java"}

\* String.prototype.toLowerCase on the names the model uses
toLowerCase(name) ==
  CASE name \in {"Main.java", "MAIN.JAVA"} -> "main.java"
    [] name = "Util.java" -> "util.java"
    [] name = "Listener.java" -> "listener.java"
    [] name = "Foo" -> "foo"
    [] name = "Plugin" -> "plugin"
    [] name = "X" -> "x"
    [] name = "Package" -> "package"
    [] name = "Method signature" -> "method signature"
    [] OTHER -> name

\* error texts of fix requests: the length of the string and the file names
\* that occur in it, as written.  The text of length 0 is the empty string
\* or a missing field: line 563 takes both for absent.
ErrorTexts ==
  {[length |-> 0, names |-> {}],
   [length |-> 500, names |-> {}],
   [length |-> 501, names |-> {"MAIN.JAVA"}]}

\* the `files` field of a fix request: absent, or a JSON object whose keys
\* come in the order the client wrote them; `empty` holds the keys whose
\* content is the empty string
FixFiles ==
  {[given |-> FALSE, keys |-> <<>>, empty |-> {}]}
    \cup {[given |-> TRUE, keys |-> k, empty |-> {}] :
             k \in {<<>>,
                    <<"pom.xml", "Main.java">>,
                    <<"Main.java", "pom.xml">>,
                    <<"plugin.yml", "Main.java">>,
                    <<"pom.xml", "plugin.yml", "Main.java", "config.yml", "Util.java">>,
                    <<"pom.xml", "plugin.yml", "Main.java", "config.yml", "Util.java",
                      "Listener.java">>}}
    \cup {[given |-> TRUE, keys |-> <<"pom.xml", "Main.java">>, empty |-> {"pom.xml"}]}

\* bodies of fix requests
FixRequests == [present : {TRUE}, buildErrors : ErrorTexts, files : FixFiles]

\* hashString, lines 96-98: md5 of the input, taken as collision free
hashString(input) == <<"md5", input>>

\* line 575: hashString(buildErrors + Object.keys(files).join()); the keys
\* are joined in the order of the object, they are not sorted
cacheKey(buildErrors, keys) == hashString(<<buildErrors, keys>>)

\* pluginCache.get followed by `if (cachedResult)`, but no stored entry is
\* ever found
cacheGet_AlwaysMiss(cache, key) == NoEntry

\* pluginCache.get followed by `if (cachedResult)`, lines 576-577: every
\* stored value is an object, so also an empty one counts as a hit
cacheGet(cache, key) ==
  IF key \in DOMAIN cache THEN [hit |-> TRUE, value |-> cache[key]] ELSE NoEntry

\* pluginCache.set that leaves out an answer without files
cacheSet_SkipEmpty(cache, key, value) ==
  IF value = <<>> THEN cache
  ELSE [k \in DOMAIN cache \cup {key} |-> IF k = key THEN value ELSE cache[k]]

\* pluginCache.set, line 674
cacheSet(cache, key, value) ==
  [k \in DOMAIN cache \cup {key} |-> IF k = key THEN value ELSE cache[k]]

\* isComplexError with both comparisons inclusive
isComplexError_Inclusive(buildErrors, keys) ==
  buildErrors.length >= 500 \/ Len(keys) >= 5

\* isComplexError, line 589
isComplexError(buildErrors, keys) ==
  buildErrors.length > 500 \/ Len(keys) > 5

\* lines 590-591: MODEL_CONFIG.pro or MODEL_CONFIG.flash, always with the
\* precision profile
modelConfig(buildErrors, keys) ==
  [model |-> IF isComplexError(buildErrors, keys) THEN "pro" ELSE "flash",
   profile |-> "precision"]

\* errorMentionsFile, lines 595-596
errorMentionsFile(buildErrors, fileName) ==
  \/ fileName \in buildErrors.names
  \/ toLowerCase(fileName) \in {toLowerCase(n) : n \in buildErrors.names}

\* the relevance filter without its second pass (lines 606-611)
relevantFiles_NoSecondPass(buildErrors, f) ==
  LET all == {f.keys[i] : i \in 1..Len(f.keys)}
      mentioned == {p \in all : errorMentionsFile(buildErrors, p)}
  IN  IF "pom.xml" \in all /\ "pom.xml" \notin f.empty
        THEN mentioned \cup {"pom.xml"}
        ELSE mentioned

\* lines 593-616: the files named in the error text; all files when none is
\* named; pom.xml when the request has it with a non-empty content.  The
\* paths of the model are file names (path.split('/').pop() is the path).
relevantFiles(buildErrors, f) ==
  LET all == {f.keys[i] : i \in 1..Len(f.keys)}
      mentioned == {p \in all : errorMentionsFile(buildErrors, p)}
      chosen == IF mentioned = {} THEN all ELSE mentioned
  IN  IF "pom.xml" \in all /\ "pom.xml" \notin f.empty
        THEN chosen \cup {"pom.xml"}
        ELSE chosen

\* Object.keys(files) of a fix request, as a set
ObjectKeys(f) == {f.keys[i] : i \in 1..Len(f.keys)}

\* the content a fix request carries under a path: the empty string, or a
\* text of the file's own
contentOf(f, p) == IF p \in f.empty THEN <<>> ELSE <<p>>

\* lines 619-621: the files of the prompt, each path with the content
\* stored under it in relevantFiles (lines 602, 609, 615)
fileListSection(buildErrors, f) ==
  [p \in relevantFiles(buildErrors, f) |-> contentOf(f, p)]

\* the responses of the fix route: lines 564-568, 579-584, 677-683, 686-691
FixBadRequest ==
  [sent |-> TRUE, code |-> 400, status |-> "fail", success |-> FALSE,
   message |-> "missing_fields"]
FixCachedResponse(cachedResult) ==
  [sent |-> TRUE, code |-> 200, status |-> "success", success |-> TRUE,
   message |-> "fixed_cached", data |-> cachedResult]
FixedResponse(updatedFiles) ==
  [sent |-> TRUE, code |-> 200, status |-> "success", success |-> TRUE,
   message |-> "fixed", data |-> updatedFiles,
   changedFiles |-> Cardinality(updatedFiles)]
FixErrorResponse ==
  [sent |-> TRUE, code |-> 500, status |-> "error", success |-> FALSE,
   message |-> "fix_failed"]

\* lines 640-674 and 677-691: the model call, the extraction of the blocks
\* of its answer (none when the answer has no block), pluginCache.set and
\* the response; a thrown call reaches the catch of the route
FixGenerate(b, key) ==
  /\ fixSent' = [called |-> TRUE,
                 model |-> modelConfig(b.buildErrors, b.files.keys).model,
                 profile |-> modelConfig(b.buildErrors, b.files.keys).profile,
                 files |-> relevantFiles(b.buildErrors, b.files),
                 section |-> fileListSection(b.buildErrors, b.files)]
  /\ modelCalls' = modelCalls + 1
  /\ \E o \in ModelOutcomes, D \in FixedFileSets \ {{}} :
       LET updatedFiles == IF o = "ok" THEN D ELSE {}
       IN  IF o = "error"
             THEN /\ resp' = FixErrorResponse
                  /\ modelError' = TRUE
                  /\ IF expired(expires, key, now)
                       THEN /\ fixCache' = cacheDel(fixCache, key)
                            /\ expires' = cacheDel(expires, key)
                       ELSE UNCHANGED <<fixCache, expires>>
             ELSE /\ resp' = FixedResponse(updatedFiles)
                  /\ fixCache' = cacheSet(fixCache, key, updatedFiles)
                  /\ expires' = setTime(expires, key, now)
                  /\ UNCHANGED modelError

\* fixRoutes.post, lines 556-694
FixHandle ==
  /\ serverUp
  /\ rpc = "idle"
  /\ \E b \in FixRequests :
       /\ req' = b
       /\ IF b.buildErrors.length = 0 \/ ~b.files.given
            THEN /\ resp' = FixBadRequest
                 /\ cachedOnArrival' = FALSE
                 /\ staleOnArrival' = FALSE
                 /\ UNCHANGED <<fixCache, expires, fixSent, modelCalls, modelError>>
            ELSE LET key == cacheKey(b.buildErrors, b.files.keys)
                     cachedResult == IF expired(expires, key, now) THEN NoEntry
                                     ELSE cacheGet(fixCache, key)
                 IN  /\ cachedOnArrival' =
                          (key \in DOMAIN fixCache /\ ~expired(expires, key, now))
                     /\ staleOnArrival' =
                          (key \in DOMAIN fixCache /\ expired(expires, key, now))
                     /\ IF cachedResult.hit
                          THEN /\ resp' = FixCachedResponse(cachedResult.value)
                               /\ UNCHANGED <<fixCache, expires, fixSent, modelCalls,
                                              modelError>>
                          ELSE FixGenerate(b, key)
  /\ rpc' = "done"
  /\ UNCHANGED <<serverUp, pluginCache, fileStructure, usedDefault, files,
                 genPath, manifest, compilationResult, served, builds, now, fnVars, nestVars,
                 scriptState>>

\* the handler has returned and the next request is taken: every request
\* runs the handler with fresh locals, the cache is shared
NextRequest ==
  /\ serverUp
  /\ rpc = "done"
  /\ served + 1 < MaxRequests
  /\ served' = served + 1
  /\ rpc' = "idle"
  /\ req' = NoReq
  /\ resp' = NoResp
  /\ fileStructure' = {}
  /\ usedDefault' = FALSE
  /\ files' = {}
  /\ modelError' = FALSE
  /\ genPath' = "none"
  /\ manifest' = NoManifest
  /\ modelCalls' = 0
  /\ cachedOnArrival' = FALSE
  /\ staleOnArrival' = FALSE
  /\ fixSent' = NoPrompt
  /\ UNCHANGED <<serverUp, pluginCache, fixCache, compilationResult, builds, now,
                 expires, fnVars, nestVars, scriptState>>

(* ---------------------------------------------------------------------- *)
(* The requests of the build script to /api/fix, served by the fix route   *)
(* ---------------------------------------------------------------------- *)

\* the event loop with a create handler that blocks it while the script
\* runs (a synchronous spawn)
eventLoopFree_SyncSpawn == serverUp /\ rpc # "cp_running"

\* lines 161-166 and 184: spawn returns at once and the close handler is a
\* callback; while compilePlugin waits for it the event loop runs the
\* handlers of other requests
eventLoopFree == serverUp

\* what `mvn clean compile -e` prints (part_003:170): texts with a length
\* and the file names that occur in them
ScriptErrorTexts ==
  {[length |-> 500, names |-> {}], [length |-> 501, names |-> {"MAIN.JAVA"}]}

\* the order in which find lists the files of the plugin directory
FindOrder == <<"pom.xml", "plugin.yml", "Main.java">>

\* collect_file_contents, part_003:100-127: the files of the tree
collect_file_contents(t) ==
  [given |-> TRUE, keys |-> SelectSeq(FindOrder, LAMBDA p : t[p] # Absent),
   empty |-> {}]

\* part_003:170-187: the errors are captured into the payload with the
\* files of the tree, and curl sends it
FixRequestSend ==
  /\ spc = "request"
  /\ \E e \in ScriptErrorTexts :
       nested' = [state |-> "sent", round |-> AI_FIX_ATTEMPTS,
                  body |-> [present |-> TRUE, buildErrors |-> e,
                            files |-> collect_file_contents(tree)]]
  /\ spc' = "curl"
  /\ fixRequests' = fixRequests + 1
  /\ lastEvent' = "fix_sent"
  /\ UNCHANGED <<serverUp, rpc, req, resp, pluginCache, fileStructure, usedDefault,
                 files, modelError, genPath, manifest, compilationResult,
                 modelCalls, cachedOnArrival, fixCache, fixSent, served, builds,
                 now, expires, staleOnArrival, fnVars, statusAnswer, diskVars,
                 exitCode, stdoutData, AI_FIX_ATTEMPTS, BUILD_SUCCESS,
                 FIX_RESPONSE, BUILD_ERRORS, mvnCalls, packageCalls,
                 captureCalls, degradedCalls, allMvnFailed, allFixOk>>

\* res.status(...).json(...) of the fix route for the request of the script
answerTo(request, state, response) ==
  [state |-> state, round |-> request.round, body |-> request.body,
   resp |-> response]

\* fixRoutes.post, lines 556-694, run for the request of the script: the
\* cache is asked first; otherwise the model is called, its answer is
\* stored under the key and sent; the answer to a request curl has given up
\* is dropped.  The content of a fixed file is named by the round whose
\* request had it generated.
FixServe ==
  /\ eventLoopFree
  /\ nested.state \in {"sent", "abandoned"}
  /\ LET b == nested.body
         state == IF nested.state = "sent" THEN "answered" ELSE "dropped"
         key == cacheKey(b.buildErrors, b.files.keys)
         cachedResult == IF expired(expires, key, now) THEN NoEntry
                         ELSE cacheGet(fixCache, key)
     IN  IF cachedResult.hit
           THEN /\ nested' = answerTo(nested, state,
                                           FixCachedResponse(cachedResult.value))
                /\ UNCHANGED <<fixCache, expires, fixSent, modelCalls>>
           ELSE /\ fixSent' = [called |-> TRUE,
                               model |-> modelConfig(b.buildErrors, b.files.keys).model,
                               profile |-> modelConfig(b.buildErrors, b.files.keys).profile,
                               files |-> relevantFiles(b.buildErrors, b.files),
                               section |-> fileListSection(b.buildErrors, b.files)]
                /\ modelCalls' = modelCalls + 1
                /\ \E o \in ModelOutcomes, D \in FixedFileSets \ {{}} :
                     LET updatedFiles == IF o = "ok" THEN [p \in D |-> nested.round]
                                         ELSE <<>>
                     IN  IF o = "error"
                           THEN /\ nested' = answerTo(nested, state, FixErrorResponse)
                                /\ IF expired(expires, key, now)
                                     THEN /\ fixCache' = cacheDel(fixCache, key)
                                          /\ expires' = cacheDel(expires, key)
                                     ELSE UNCHANGED <<fixCache, expires>>
                           ELSE /\ nested' =
                                     answerTo(nested, state,
                                              [FixedResponse(DOMAIN updatedFiles)
                                                 EXCEPT !.data = updatedFiles])
                                /\ fixCache' = cacheSet(fixCache, key, updatedFiles)
                                /\ expires' = setTime(expires, key, now)
  /\ lastEvent' = "fix_served"
  /\ UNCHANGED <<serverUp, rpc, req, resp, pluginCache, fileStructure, usedDefault,
                 files, modelError, genPath, manifest, compilationResult,
                 cachedOnArrival, served, builds, now, staleOnArrival, fnVars,
                 statusAnswer, diskVars, scriptVars, mvnCalls, packageCalls,
                 captureCalls, degradedCalls, fixRequests, allMvnFailed, allFixOk>>

\* part_003:200-208: every path of the answer is overwritten with its
\* content
writeFixedFiles(t, data) ==
  [p \in Paths |-> IF p \in DOMAIN data THEN data[p] ELSE t[p]]

\* part_003:184-208: curl returns with the answer of the route, or with
\* nothing when --max-time is over before the route has answered; an answer
\* whose status is not "success" ends the iteration (continue), the files
\* of a success envelope are written
FixReceive ==
  /\ spc = "curl"
  /\ nested.state \in {"sent", "answered"}
  /\ LET r == IF nested.state = "answered" THEN nested.resp
              ELSE [status |-> "none", data |-> <<>>]
     IN  /\ FIX_RESPONSE' = [received |-> TRUE,
                             status |-> IF r.status = "success" THEN "success"
                                        ELSE "error",
                             data |-> IF r.status = "success" THEN DOMAIN r.data
                                      ELSE {}]
         /\ allFixOk' = (allFixOk /\ r.status = "success")
         /\ IF r.status = "success"
              THEN /\ tree' = writeFixedFiles(tree, r.data)
                   /\ spc' = "rebuild"
                   /\ lastEvent' = "fix_applied"
                   /\ UNCHANGED stdoutData
              ELSE ContinueLoop
  /\ nested' = [nested EXCEPT !.state = IF nested.state = "answered"
                                           THEN "received" ELSE "abandoned"]
  /\ UNCHANGED <<serverUp, rpc, req, resp, pluginCache, fileStructure, usedDefault,
                 files, modelError, genPath, manifest, compilationResult,
                 modelCalls, cachedOnArrival, fixCache, fixSent, served, builds,
                 now, expires, staleOnArrival, fnVars, statusAnswer, target,
                 resultFile, dirs, exitCode, AI_FIX_ATTEMPTS, BUILD_SUCCESS,
                 BUILD_ERRORS, mvnCalls, packageCalls, captureCalls,
                 degradedCalls, fixRequests, allMvnFailed>>


(* ---------------------------------------------------------------------- *)
(* Build directories of create requests that are in flight together        *)
(* ---------------------------------------------------------------------- *)

\* build identifiers a client can put in the body of its request
ClientBuildIds == {<<"plugin", 0>>, <<"custom", 0>>}

\* the variables of the single request and of its script
singleVars == <<serverUp, rpc, req, resp, pluginCache, fileStructure, usedDefault,
                files, modelError, genPath, manifest, compilationResult, modelCalls,
                cachedOnArrival, fixCache, fixSent, served, expires,
                staleOnArrival, fnVars, nestVars, scriptState>>

\* line 713 and line 119: requestBuildId || `plugin-${Date.now()}`
buildIdOf(requestBuildId, t) ==
  IF requestBuildId # NoId THEN requestBuildId ELSE <<"plugin", t>>

\* createRoutes.post, lines 700-713: a request that asks for compilation is
\* accepted and its buildId is fixed; the generation follows
CreateAccept(r) ==
  /\ builds[r].phase = "none"
  /\ \E requestBuildId \in {NoId} \cup ClientBuildIds :
       builds' = [builds EXCEPT ![r] =
                    [phase |-> "generating",
                     buildId |-> buildIdOf(requestBuildId, now)]]
  /\ UNCHANGED <<now, singleVars>>

\* compilePlugin, lines 117-157: outputDir is PLUGINS_BASE_DIR/buildId; it
\* is created (or reused when it exists) and the files are written into it
CompileStart(r) ==
  /\ builds[r].phase = "generating"
  /\ builds' = [builds EXCEPT ![r] =
                  [phase |-> "compiling",
                   buildId |-> builds[r].buildId,
                   outputDir |-> buildIdOf(builds[r].buildId, now)]]
  /\ UNCHANGED <<now, singleVars>>

\* bashProcess.on('close'), lines 184-223: the build of the request is over
CompileClose(r) ==
  /\ builds[r].phase = "compiling"
  /\ builds' = [builds EXCEPT ![r].phase = "closed"]
  /\ UNCHANGED <<now, singleVars>>

\* a millisecond passes
Tick ==
  /\ now < MaxClock
  /\ now' = now + 1
  /\ UNCHANGED <<builds, singleVars>>

(* ---------------------------------------------------------------------- *)
(* GET /api/build/status/:buildId                                          *)
(* ---------------------------------------------------------------------- *)

\* buildRoutes.get, lines 1171-1256: the status is derived from the disk.
\* No build directory: HTTP 404; an archive under target/ whose name does
\* not contain "original": completed; a target directory without one:
\* failed; otherwise pending.
getBuildStatus ==
  IF "outputDir" \notin dirs
    THEN "not_found"
    ELSE IF "plugin.jar" \in target
      THEN "completed"
      ELSE IF "target" \in dirs THEN "failed" ELSE "pending"

\* buildRoutes.get, lines 1171-1256, for the build directory of the
\* request: the answer, with the place the script was at when it was given
StatusRequest ==
  /\ serverUp
  /\ statusAnswer' = [status |-> getBuildStatus, during |-> spc]
  /\ statusAnswer' # statusAnswer
  /\ UNCHANGED <<serverUp, rpc, req, resp, pluginCache, fileStructure, usedDefault,
                 files, modelError, genPath, manifest, compilationResult,
                 modelCalls, cachedOnArrival, fixCache, fixSent, served, builds,
                 now, expires, staleOnArrival, fnVars, nested, scriptState>>

\* the next create request with compilation, from its arrival to its call
\* of compilePlugin (lines 700-1117): its buildId is the one the answer to
\* the last request carried, or none; the script of the last request is
\* over and the build directory is as it left it
NextBuild ==
  /\ serverUp
  /\ rpc = "done"
  /\ served + 1 < MaxRequests
  /\ served' = served + 1
  /\ \E b \in {"given", "none"} : req' = [req EXCEPT !.buildId = b]
  /\ rpc' = "cp_setup"
  /\ resp' = NoResp
  /\ compilationResult' = NoResult
  /\ spc' = "none"
  /\ exitCode' = -1
  /\ stdoutData' = {}
  /\ AI_FIX_ATTEMPTS' = 0
  /\ BUILD_SUCCESS' = FALSE
  /\ FIX_RESPONSE' = NoFix
  /\ BUILD_ERRORS' = EmptyTree
  /\ mvnCalls' = 0
  /\ packageCalls' = 0
  /\ captureCalls' = 0
  /\ degradedCalls' = 0
  /\ fixRequests' = 0
  /\ allMvnFailed' = TRUE
  /\ allFixOk' = TRUE
  /\ lastEvent' = "none"
  /\ UNCHANGED <<serverUp, pluginCache, fileStructure, usedDefault, files,
                 modelError, genPath, manifest, modelCalls, cachedOnArrival,
                 fixCache, fixSent, builds, now, expires, staleOnArrival,
                 fnVars, nestVars, diskVars>>

(* ---------------------------------------------------------------------- *)
(* Texts and the string operations of the routes                           *)
(* ---------------------------------------------------------------------- *)

\* A text is a sequence of tokens; a token is a string that stands for the
\* piece of text the patterns of the routes treat as a unit (a marker, a
\* keyword, a character that is whitespace, a character that is not).

\* the tokens \s matches
Whitespace == {" ", "\n"}

\* s.substring(i - 1, j): the tokens i..j of s
Sub(s, i, j) == IF i > j THEN <<>> ELSE SubSeq(s, i, j)

\* s.startsWith(pat, i - 1)
MatchesAt(s, pat, i) ==
  /\ i + Len(pat) - 1 <= Len(s)
  /\ \A k \in 1..Len(pat) : s[i + k - 1] = pat[k]

\* s.indexOf(pat, from - 1) + 1: the first position at or after `from`
\* where pat occurs, 0 when there is none
indexOf(s, pat, from) ==
  LET at == {i \in from..(Len(s) + 1) : MatchesAt(s, pat, i)}
  IN  IF at = {} THEN 0 ELSE CHOOSE i \in at : \A j \in at : i <= j

\* String.prototype.includes
includes(s, pat) == indexOf(s, pat, 1) # 0

\* String.prototype.startsWith and endsWith
startsWith(s, pat) == MatchesAt(s, pat, 1)
endsWith(s, pat) == Len(pat) <= Len(s) /\ MatchesAt(s, pat, Len(s) - Len(pat) + 1)

\* String.prototype.trim
trim(s) ==
  LET kept == {i \in 1..Len(s) : s[i] \notin Whitespace}
  IN  IF kept = {} THEN <<>>
      ELSE Sub(s, CHOOSE i \in kept : \A j \in kept : i <= j,
                  CHOOSE i \in kept : \A j \in kept : j <= i)

\* s.replace(/pat/g, rep) for a pattern without operators: the occurrences
\* are found from left to right, the text put in is not searched again
RECURSIVE replaceFrom(_, _, _, _)
replaceFrom(s, pat, rep, from) ==
  LET i == indexOf(s, pat, from)
  IN  IF i = 0 \/ pat = <<>>
        THEN Sub(s, from, Len(s))
        ELSE Sub(s, from, i - 1) \o rep \o replaceFrom(s, pat, rep, i + Len(pat))
replaceAll(s, pat, rep) == replaceFrom(s, pat, rep, 1)

\* s.replace(/pat/, rep) or s.replace("pat", rep): the first occurrence only
replaceFirst(s, pat, rep) ==
  LET i == indexOf(s, pat, 1)
  IN  IF i = 0 THEN s
      ELSE Sub(s, 1, i - 1) \o rep \o Sub(s, i + Len(pat), Len(s))

\* the token that stands for the three backquotes of a markdown code fence
Fence == "[fence]"

\* MARKDOWN_CODE_PATTERN, line 27: the language tags a fence can carry
FenceTags == {"java", "xml", "yml", "yaml"}

\* the first position at or after i that holds no whitespace
RECURSIVE skipWhitespace(_, _)
skipWhitespace(s, i) ==
  IF i <= Len(s) /\ s[i] \in Whitespace THEN skipWhitespace(s, i + 1) ELSE i

\* cleanContent, lines 92-94, with MARKDOWN_CODE_PATTERN (line 27): a fence
\* at the start goes with its tag and the whitespace after it, a fence that
\* only whitespace separates from the end goes with that whitespace, every
\* other fence goes alone
RECURSIVE cleanFrom(_, _)
cleanFrom(s, i) ==
  IF i > Len(s) THEN <<>>
  ELSE IF s[i] # Fence THEN <<s[i]>> \o cleanFrom(s, i + 1)
  ELSE IF i = 1
    THEN cleanFrom(s, skipWhitespace(s, IF Len(s) >= 2 /\ s[2] \in FenceTags
                                         THEN 3 ELSE 2))
    ELSE IF skipWhitespace(s, i + 1) > Len(s) THEN <<>>
    ELSE cleanFrom(s, i + 1)
cleanContent(content) == cleanFrom(content, 1)

(* ---------------------------------------------------------------------- *)
(* The extraction of file blocks from the text of a model answer           *)
(* ---------------------------------------------------------------------- *)

\* the markers of FILE_PATTERN, line 21
FILE_START == "---FILE_START:"
DASHES == "---"
FILE_END == "---FILE_END---"

\* a call of the method the Java cleanup rewrites, with its argument
PigCall == "pig.setAngry(true)"

\* a file block as the prompts ask for it (lines 634-637, 929-932)
Block(path, body) == <<FILE_START>> \o path \o <<DASHES>> \o body \o <<FILE_END>>

\* the path of a block as written: bare, padded with blanks, a Java source
BlockPaths == {<<"pom.xml">>, <<" ", "pom.xml", " ">>, <<"Main", ".java">>}

\* the body of a block: bare, on lines of its own, inside a code fence, with
\* a call the Java cleanup rewrites
BlockBodies ==
  {<<"x">>, <<"\n", "x", "\n">>, <<Fence, "java", "\n", "x", "\n", Fence>>,
   <<PigCall>>}

\* a start marker that no end marker of its own follows
Unterminated == <<FILE_START, "Main", ".java", DASHES, "\n", "y", "\n">>

\* text outside the blocks
Chatter == <<"z", "\n">>

\* the pieces a model answer is made of
Segments ==
  {Block(p, b) : p \in BlockPaths, b \in BlockBodies} \cup {Unterminated, Chatter}

\* the model answers of at most n pieces
RECURSIVE TextsOf(_)
TextsOf(n) ==
  IF n = 0 THEN {<<>>}
  ELSE TextsOf(n - 1) \cup {t \o g : t \in TextsOf(n - 1), g \in Segments}

\* FILE_PATTERN.exec(text) with FILE_PATTERN.lastIndex = lastIndex - 1
\* (lines 21, 657, 944): the first start marker at or after lastIndex that
\* a closing "---" follows on the same line and an end marker follows
\* after that; group 1 runs to the first such "---", group 2 from there to
\* the first end marker
FILE_PATTERN_exec(text, lastIndex) ==
  LET closing(i) == {j \in (i + 1)..Len(text) :
                       /\ text[j] = DASHES
                       /\ \A k \in (i + 1)..(j - 1) : text[k] \notin {"\n", DASHES}}
      ending(j) == {e \in (j + 1)..Len(text) : text[e] = FILE_END}
      starts == {i \in lastIndex..Len(text) :
                   /\ text[i] = FILE_START
                   /\ \E j \in closing(i) : ending(j) # {}}
  IN  IF starts = {} THEN [found |-> FALSE]
      ELSE LET i == CHOOSE a \in starts : \A b \in starts : a <= b
               j == CHOOSE a \in closing(i) : TRUE
               e == CHOOSE a \in ending(j) : \A b \in ending(j) : a <= b
           IN  [found |-> TRUE, path |-> Sub(text, i + 1, j - 1),
                body |-> Sub(text, j + 1, e - 1), lastIndex |-> e + 1]

\* obj[filePath] = content on an object whose keys keep their insertion
\* order: an existing key keeps its place and gets the new content
setProperty(obj, filePath, content) ==
  IF \E i \in 1..Len(obj) : obj[i].path = filePath
    THEN [i \in 1..Len(obj) |->
            IF obj[i].path = filePath
              THEN [path |-> filePath, content |-> content] ELSE obj[i]]
    ELSE Append(obj, [path |-> filePath, content |-> content])

\* the replacement of line 664: the call is put into a comment, after a
\* comment that says why
PigTodo == <<"// TODO: Pig.setAngry() doesn't exist", "\n", "// ", PigCall>>

\* lines 661-667, the Java cleanup of the fix route: the rewrite of the
\* call and the two patterns that remove a fence next to a package line
fixJavaCleanup(filePath, content) ==
  IF endsWith(filePath, <<".java">>)
    THEN replaceAll(replaceAll(replaceAll(content, <<PigCall>>, PigTodo),
                               <<";", Fence>>, <<";">>),
                    <<Fence, "package">>, <<"package">>)
    ELSE content

\* lines 651-671: the extraction loop of the fix route
RECURSIVE extractUpdatedFiles(_, _, _)
extractUpdatedFiles(fixedContent, lastIndex, updatedFiles) ==
  LET fileMatch == FILE_PATTERN_exec(fixedContent, lastIndex)
  IN  IF ~fileMatch.found THEN updatedFiles
      ELSE LET filePath == trim(fileMatch.path)
               content == fixJavaCleanup(filePath,
                                         cleanContent(trim(fileMatch.body)))
           IN  extractUpdatedFiles(fixedContent, fileMatch.lastIndex,
                                   setProperty(updatedFiles, filePath, content))

(* ---------------------------------------------------------------------- *)
(* The type-specific processing of the extracted files                     *)
(* ---------------------------------------------------------------------- *)

\* pluginName.toLowerCase() on a name given by its parts
toLowerCaseText(name) == [i \in 1..Len(name) |-> toLowerCase(name[i])]

\* the last position of the line that holds position i
RECURSIVE lineEnd(_, _)
lineEnd(s, i) ==
  IF i >= Len(s) \/ s[i + 1] = "\n" THEN i ELSE lineEnd(s, i + 1)

\* lines 242-244 and 985-987: the placeholder namespaces are replaced, one
\* replace call after the other
namespaceFixes(content, pluginLower) ==
  LET canonical == <<"com", ".", "pegasus", ".">> \o pluginLower
  IN  replaceAll(replaceAll(replaceAll(content,
                                       <<"com", ".", "yourusername">>, canonical),
                            <<"com", ".", "pegasus", ".", "plugin">>, canonical),
                 <<"yourusername">>, <<"pegasus">>)

\* the lines processJavaFile reads and writes
JetBrainsImport == "import org.jetbrains.annotations.NotNull;"
BukkitImport == "import org.bukkit.Bukkit;"
MetadataImport == "import org.bukkit.metadata.FixedMetadataValue;"

\* the replacement of lines 236-237: the call becomes three calls, the
\* last of them setMetadata
PigPersistent ==
  <<"// Pig.setAngry() doesn't exist in Bukkit API", "\n", "pig.setPersistent(true);",
    "\n", "pig.", "setMetadata", "(angry, new FixedMetadataValue(plugin, true))">>

\* line 239: an import of a JetBrains annotation goes with the line break
\* after it
RECURSIVE removeJetBrains(_, _)
removeJetBrains(s, i) ==
  IF i > Len(s) THEN <<>>
  ELSE IF s[i] # JetBrainsImport THEN <<s[i]>> \o removeJetBrains(s, i + 1)
  ELSE removeJetBrains(s, IF i < Len(s) /\ s[i + 1] = "\n" THEN i + 2 ELSE i + 1)

\* lines 230-231: the package the directory of the path stands for, from
\* the directories after src/main/java/
packageNameOf(filePath) ==
  LET root == indexOf(filePath, <<"src/main/java/">>, 1)
      slashes == {i \in (root + 1)..Len(filePath) : filePath[i] = "/"}
  IN  IF root = 0 \/ slashes = {} THEN <<>>
      ELSE replaceAll(Sub(filePath, root + 1,
                          (CHOOSE i \in slashes : \A j \in slashes : j <= i) - 1),
                      <<"/">>, <<".">>)

\* processJavaFile, lines 228-260
processJavaFile(filePath, content, pluginName) ==
  LET packageName == packageNameOf(filePath)
      replaced ==
        namespaceFixes(
          replaceAll(replaceAll(
            removeJetBrains(replaceAll(content, <<PigCall>>, PigPersistent), 1),
            <<"@NotNull ">>, <<>>), <<"@Nullable ">>, <<>>),
          toLowerCaseText(pluginName))
      sections == {i \in 1..(Len(replaced) - 2) :
                     /\ replaced[i] \in {JetBrainsImport, BukkitImport, MetadataImport}
                     /\ replaced[i + 1] = "\n" /\ replaced[i + 2] = "\n"}
      section == CHOOSE i \in sections : \A j \in sections : i <= j
      imported ==
        IF /\ includes(replaced, <<"setMetadata">>)
           /\ ~includes(replaced, <<MetadataImport>>)
           /\ sections # {}
          THEN Sub(replaced, 1, section + 2) \o <<MetadataImport, "\n">>
                 \o Sub(replaced, section + 3, Len(replaced))
          ELSE replaced
  IN  IF packageName # <<>> /\ ~startsWith(trim(imported), <<"package">>)
        THEN <<"package", " ">> \o packageName \o <<";", "\n", "\n">> \o imported
        ELSE imported

\* the tokens that begin with "<"
TagTokens == {"<?xml", "<project", "<artifactId>", "</artifactId>", "<!--"}

\* the declaration of line 954
XmlDeclaration == <<"<?xml", " version=1.0 encoding=UTF-8?>", "\n">>

\* lines 951-962: the text before the first tag goes when that tag is the
\* declaration or the project element; the declaration is put in front
\* when the text does not start with one; the first artifactId element
\* gets the lower-case plugin name unless some artifactId element has it
processPom(fileContent, pluginLower) ==
  LET tags == {i \in 1..Len(fileContent) : fileContent[i] \in TagTokens}
      first == CHOOSE i \in tags : \A j \in tags : i <= j
      stripped ==
        IF tags # {} /\ fileContent[first] \in {"<?xml", "<project"}
          THEN Sub(fileContent, first, Len(fileContent)) ELSE fileContent
      declared ==
        IF startsWith(stripped, <<"<?xml">>) THEN stripped
        ELSE XmlDeclaration \o stripped
      wanted == <<"<artifactId>">> \o pluginLower \o <<"</artifactId>">>
      closes(i) == {j \in (i + 1)..lineEnd(declared, i) : declared[j] = "</artifactId>"}
      opens == {i \in 1..Len(declared) :
                  declared[i] = "<artifactId>" /\ closes(i) # {}}
      open == CHOOSE i \in opens : \A j \in opens : i <= j
      close == CHOOSE j \in closes(open) : \A k \in closes(open) : j <= k
  IN  IF includes(declared, wanted) \/ opens = {} THEN declared
      ELSE Sub(declared, 1, open - 1) \o wanted
             \o Sub(declared, close + 1, Len(declared))

\* lines 965-970 and 331-336: the first "name: ..." is rewritten when the
\* text lacks "name: <pluginName>"; a name line is put in front when the
\* text then has no "name:" at all
ensureName(content, pluginName) ==
  LET nameLine == <<"name:", " ">> \o pluginName
      at == indexOf(content, <<"name:", " ">>, 1)
      r == IF at = 0 THEN content
           ELSE Sub(content, 1, at - 1) \o nameLine
                  \o Sub(content, lineEnd(content, at) + 1, Len(content))
  IN  IF includes(content, nameLine) THEN content
      ELSE IF includes(r, <<"name:">>) THEN r ELSE nameLine \o <<"\n">> \o r

\* lines 974-980 and 346-353: a version line and an api-version line are
\* added at the end when the text does not contain "version:" or
\* "api-version:"
ensureVersions(content) ==
  LET versioned ==
        IF includes(content, <<"version:">>) THEN content
        ELSE content \o <<"\n", "version:", " ", "1.0">>
  IN  IF includes(versioned, <<"api-", "version:">>) THEN versioned
      ELSE versioned \o <<"\n", "api-", "version:", " ", "1.19">>

\* lines 963-981: the manifest in the create route
processPluginYml(fileContent, pluginName) ==
  ensureVersions(ensureName(fileContent, pluginName))

\* lines 338-343: the first "main: ..." gets the main class, a main line is
\* added at the end when the text has no "main:"
ensureMain(content, fullMainClass) ==
  LET at == indexOf(content, <<"main:", " ">>, 1)
  IN  IF includes(content, <<"main:">>)
        THEN IF at = 0 THEN content
             ELSE Sub(content, 1, at - 1) \o <<"main:", " ">> \o fullMainClass
                    \o Sub(content, lineEnd(content, at) + 1, Len(content))
        ELSE content \o <<"\n", "main:", " ">> \o fullMainClass

\* validatePluginFiles, lines 323-355: the manifest when the main class
\* and its package are known
validatePluginYml(pluginYml, pluginName, fullMainClass) ==
  ensureVersions(ensureMain(ensureName(pluginYml, pluginName), fullMainClass))

\* lines 948-987 of the create route: the processing by file type, then
\* the namespace replacements for every file
processCreated(filePath, fileContent, pluginName) ==
  LET pluginLower == toLowerCaseText(pluginName)
      typed ==
        IF endsWith(filePath, <<".java">>)
          THEN processJavaFile(filePath, fileContent, pluginName)
        ELSE IF filePath = <<"pom.xml">> \/ endsWith(filePath, <<".xml">>)
          THEN processPom(fileContent, pluginLower)
        ELSE IF endsWith(filePath, <<"plugin.yml">>)
          THEN processPluginYml(fileContent, pluginName)
        ELSE fileContent
  IN  namespaceFixes(typed, pluginLower)

\* the processing a route applies to the content of an extracted file
processFile(route, filePath, content, pluginName) ==
  CASE route = "create" -> processCreated(filePath, content, pluginName)
    [] route = "fix" -> fixJavaCleanup(filePath, content)
    [] route = "validate" ->
         validatePluginYml(content, pluginName,
                           <<"com", ".", "pegasus", ".">>
                             \o toLowerCaseText(pluginName) \o <<".", "Main">>)

\* number of pieces of the longest file content
MaxPieces == 3

\* the sequences of at most n pieces
RECURSIVE ContentsOf(_, _)
ContentsOf(pieces, n) ==
  IF n = 0 THEN {<<>>}
  ELSE ContentsOf(pieces, n - 1)
         \cup {c \o g : c \in ContentsOf(pieces, n - 1), g \in pieces}

\* what a Java source, a build descriptor and a manifest are made of
JavaPieces ==
  {<<PigCall, "\n">>, <<JetBrainsImport, "\n">>, <<"@NotNull ">>,
   <<"com", ".", "yourusername">>, <<"com", ".", "pegasus", ".", "plugin">>,
   <<"package", " ", "x", ";", "\n">>, <<BukkitImport, "\n", "\n">>, <<"x", "\n">>}
PomPieces ==
  {<<"x", "\n">>, <<"<?xml", " version=1.0?>", "\n">>, <<"<project", "\n">>,
   <<"<!--", "\n">>, <<"<artifactId>", "foo", "</artifactId>", "\n">>,
   <<"<artifactId>", "old", "</artifactId>", "\n">>}
YmlPieces ==
  {<<"name:", " ", "Foo", "\n">>, <<"name:", " ", "Old", "\n">>,
   <<"version:", " ", "2.0", "\n">>, <<"api-", "version:", " ", "1.18", "\n">>,
   <<"main:", " ", "com", ".", "pegasus", ".", "plugin", ".", "Main", "\n">>}

\* the plugin names: extractPluginName returns letters and digits
PluginNames == {<<"Foo">>, <<"Plugin", "X">>}

\* the inputs of the processing: a path, a content of its type, a plugin
\* name, and the route that does the processing
ProcessArgs ==
  [fn : {"process"}, route : {"create"}, pluginName : PluginNames,
   filePath : {<<"Main", ".java">>,
               <<"src/main/java/", "com", "/", "x", "/", "Main", ".java">>},
   content : ContentsOf(JavaPieces, MaxPieces)]
    \cup [fn : {"process"}, route : {"fix"}, pluginName : {<<"Foo">>},
          filePath : {<<"Main", ".java">>},
          content : ContentsOf(JavaPieces, MaxPieces)]
    \cup [fn : {"process"}, route : {"create"}, pluginName : PluginNames,
          filePath : {<<"pom.xml">>}, content : ContentsOf(PomPieces, MaxPieces)]
    \cup [fn : {"process"}, route : {"create", "validate"},
          pluginName : PluginNames,
          filePath : {<<"src/main/resources/", "plugin.yml">>},
          content : ContentsOf(YmlPieces, MaxPieces)]

(* ---------------------------------------------------------------------- *)
(* POST /api/create: the multi-file call and the per-file fallback         *)
(* ---------------------------------------------------------------------- *)

\* the pluginName extractPluginName gave the request
RoutePluginName == <<"Foo">>

\* texts the model can give for plugin.yml: another name, a display name
\* only
ManifestTexts ==
  {<<"name:", " ", "Old", "\n">>,
   <<"display-", "name:", " ", "Old", "\n", "main:", " ", "Main", "\n">>}

\* lines 944-991: the block of plugin.yml as the loop stores it
multiFileManifest(text) ==
  processCreated(<<"plugin.yml">>, cleanContent(trim(text)), RoutePluginName)

\* lines 1012-1016 and 1021-1023: the answer for plugin.yml as the fallback
\* stores it
fallbackManifest(text) == cleanContent(text)

\* lines 935-991: the multi-file call and the extraction of its blocks; an
\* answer without a block leaves the tree empty
MultiFileGeneration ==
  /\ serverUp /\ rpc = "multifile"
  /\ \E o \in ModelOutcomes :
       CASE o = "error" ->
              /\ Abort500
              /\ UNCHANGED <<files, genPath, manifest>>
         [] o = "malformed" ->
              /\ files' = {}
              /\ rpc' = "fallback"
              /\ UNCHANGED <<resp, modelError, genPath, manifest>>
         [] o = "ok" ->
              /\ \E t \in GeneratedTrees :
                   /\ files' = t
                   /\ IF "plugin.yml" \in t
                        THEN \E text \in ManifestTexts :
                               manifest' = multiFileManifest(text)
                        ELSE manifest' = NoManifest
              /\ genPath' = "multi"
              /\ rpc' = "consistency"
              /\ UNCHANGED <<resp, modelError>>
  /\ modelCalls' = modelCalls + 1
  /\ UNCHANGED <<serverUp, req, cachedOnArrival, routeVars, pluginCache,
                 fileStructure, usedDefault,
                 compilationResult, scriptState>>

\* lines 993-1024: one call per path of fileStructure, joined by Promise.all;
\* whatever text comes back is stored as the file's content
FallbackGeneration ==
  /\ serverUp /\ rpc = "fallback"
  /\ \E o \in ModelOutcomes :
       IF o = "error"
         THEN /\ Abort500
              /\ UNCHANGED <<files, genPath, manifest>>
         ELSE /\ files' = fileStructure
              /\ IF "plugin.yml" \in fileStructure
                   THEN \E text \in ManifestTexts :
                          manifest' = fallbackManifest(text)
                   ELSE manifest' = NoManifest
              /\ genPath' = "fallback"
              /\ rpc' = "consistency"
              /\ UNCHANGED <<resp, modelError>>
  /\ modelCalls' = modelCalls + Cardinality(fileStructure)
  /\ UNCHANGED <<serverUp, req, cachedOnArrival, routeVars, pluginCache,
                 fileStructure, usedDefault,
                 compilationResult, scriptState>>

(* ---------------------------------------------------------------------- *)
(* verifyToken, the middleware in front of the routes                      *)
(* ---------------------------------------------------------------------- *)

\* values of process.env.API_TOKEN: not set, or a secret
ApiTokens == {<<>>, <<"secret">>}

\* values of the Authorization header (<<>>: no header); a blank is a
\* token of its own
AuthHeaders ==
  {<<>>, <<"secret">>, <<"Bearer", " ", "secret">>, <<"Bearer", " ", "wrong">>,
   <<"bearer", " ", "secret">>, <<"Bearer", " ", " ", "secret">>,
   <<"Bearer", " ", "secret", " ", "junk">>,
   <<"Bearer", " ", "your-secret-token">>}

\* authHeader.split(' ')[1]: what stands between the first and the second
\* blank
splitSecond(authHeader) ==
  LET blanks == {i \in 1..Len(authHeader) : authHeader[i] = " "}
      first == CHOOSE i \in blanks : \A j \in blanks : i <= j
      later == {i \in blanks : i > first} \cup {Len(authHeader) + 1}
  IN  IF blanks = {} THEN <<>>
      ELSE Sub(authHeader, first + 1,
               (CHOOSE i \in later : \A j \in later : i <= j) - 1)

\* the 401 responses of verifyToken (authMiddleware.ts:12-15, 27-30;
\* part_002:14-17, 26-29)
Unauthorized(message) ==
  [next |-> FALSE, code |-> 401, body |-> [status |-> "fail", message |-> message]]

\* verifyToken.  authMiddleware.ts:6-36 reads the secret from the
\* environment and rejects every request when it is not set; part_002:7-35
\* falls back to the token 'your-secret-token' when it is not set
verifyToken(variant, envToken, authHeader) ==
  LET API_TOKEN ==
        IF variant = "part_002" /\ envToken = <<>>
          THEN <<"your-secret-token">> ELSE envToken
      token == splitSecond(authHeader)
  IN  IF authHeader = <<>> \/ ~startsWith(authHeader, <<"Bearer", " ">>)
        THEN Unauthorized(IF variant = "part_002" THEN "Authentication required"
                          ELSE "Invalid token")
      ELSE IF API_TOKEN = <<>> \/ token # API_TOKEN
        THEN Unauthorized("Invalid token")
      ELSE [next |-> TRUE]

\* the inputs of verifyToken
AuthArgs ==
  [fn : {"auth"}, variant : {"authMiddleware", "part_002"}, API_TOKEN : ApiTokens,
   authHeader : AuthHeaders]

(* ---------------------------------------------------------------------- *)
(* The extraction of the file list from the text of the file-list call     *)
(* ---------------------------------------------------------------------- *)

\* the double quote
Quote == "\""

\* tokens that are digits
Digits == {"1"}

\* the tokens [\w\/\-\.] matches, and those among them that end in .java,
\* .xml or .yml (FILE_EXTENSION_PATTERN, line 26)
WordTokens ==
  {"pom.xml", "plugin.yml", "config.yml", "Main", ".java", "src/", "files", "1"}
ExtensionTokens == {"pom.xml", "plugin.yml", "config.yml", ".java"}

\* the last position of the run of tokens from i on that are not quotes
RECURSIVE runEnd(_, _)
runEnd(s, i) ==
  IF i < Len(s) /\ s[i + 1] # Quote THEN runEnd(s, i + 1) ELSE i

\* (?:",\s*"[^"]+")* of JSON_ARRAY_PATTERN from position p on: the position
\* after the last group that matches
RECURSIVE afterGroups(_, _)
afterGroups(s, p) ==
  LET open == skipWhitespace(s, p + 2)
      last == runEnd(s, open + 1)
  IN  IF /\ p + 1 <= Len(s) /\ s[p] = Quote /\ s[p + 1] = ","
         /\ open + 1 <= Len(s) /\ s[open] = Quote /\ s[open + 1] # Quote
         /\ last + 1 <= Len(s) /\ s[last + 1] = Quote
        THEN afterGroups(s, last + 2)
        ELSE p

\* JSON_ARRAY_PATTERN (line 25) tried at position i: the position of the
\* closing bracket of the match, 0 when the pattern does not match there.
\* [^"]+ takes the run up to the next quote; when the groups and the
\* closing bracket do not follow, it gives tokens back until a closing
\* bracket follows it
jsonArrayMatchAt(s, i) ==
  LET open == skipWhitespace(s, i + 1)
      last == runEnd(s, open + 1)
      tail == skipWhitespace(s, afterGroups(s, last + 1))
      inner == {c \in (open + 1)..(last - 1) :
                  LET b == skipWhitespace(s, c + 1) IN b <= last /\ s[b] = "]"}
      given == CHOOSE c \in inner : \A d \in inner : d <= c
  IN  IF ~(/\ s[i] = "[" /\ open + 1 <= Len(s)
           /\ s[open] = Quote /\ s[open + 1] # Quote)
        THEN 0
      ELSE IF tail <= Len(s) /\ s[tail] = "]" THEN tail
      ELSE IF inner # {} THEN skipWhitespace(s, given + 1)
      ELSE 0

\* JSON_ARRAY_PATTERN.exec(fileListText), line 840: the leftmost match
JSON_ARRAY_PATTERN_exec(s) ==
  LET at == {i \in 1..Len(s) : jsonArrayMatchAt(s, i) # 0}
      i == CHOOSE a \in at : \A b \in at : a <= b
  IN  IF at = {} THEN <<>> ELSE Sub(s, i, jsonArrayMatchAt(s, i))

\* lines 846-851: from the first "[" to the last "]" when they come in
\* this order
bracketedContent(s) ==
  LET opens == {i \in 1..Len(s) : s[i] = "["}
      closes == {i \in 1..Len(s) : s[i] = "]"}
      openBracketIndex == CHOOSE i \in opens : \A j \in opens : i <= j
      closeBracketIndex == CHOOSE i \in closes : \A j \in closes : j <= i
  IN  IF opens # {} /\ closes # {} /\ openBracketIndex < closeBracketIndex
        THEN Sub(s, openBracketIndex, closeBracketIndex) ELSE <<>>

\* JSON.parse of a text that starts with "[": the items of the array, or a
\* SyntaxError.  An item is a string or a number; parseItems gives the
\* items from position first on, the last of them Unparsed when the text
\* is not an array
SyntaxError == [ok |-> FALSE]
Unparsed == [type |-> "error", value |-> <<>>]
parseItems(s, first) ==
  LET itemsFrom[i \in 1..(Len(s) + 1)] ==
        LET close == CHOOSE j \in (i + 1)..Len(s) :
                       s[j] = Quote /\ \A k \in (i + 1)..(j - 1) : s[k] # Quote
            item == IF s[i] = Quote
                      THEN [type |-> "string", value |-> Sub(s, i + 1, close - 1)]
                      ELSE [type |-> "number", value |-> <<s[i]>>]
            next == skipWhitespace(s, IF s[i] = Quote THEN close + 1 ELSE i + 1)
        IN  IF i > Len(s) THEN <<Unparsed>>
            ELSE IF s[i] = Quote /\ (\A j \in (i + 1)..Len(s) : s[j] # Quote)
              THEN <<Unparsed>>
            ELSE IF s[i] = Quote /\ (\E k \in (i + 1)..(close - 1) : s[k] = "\n")
              THEN <<Unparsed>>
            ELSE IF s[i] # Quote /\ s[i] \notin Digits THEN <<Unparsed>>
            ELSE IF next > Len(s) THEN <<Unparsed>>
            ELSE IF s[next] = "]"
              THEN IF skipWhitespace(s, next + 1) > Len(s)
                     THEN <<item>> ELSE <<Unparsed>>
            ELSE IF s[next] = ","
              THEN <<item>> \o itemsFrom[skipWhitespace(s, next + 1)]
            ELSE <<Unparsed>>
  IN  itemsFrom[first]
JSON_parse(s) ==
  LET first == skipWhitespace(s, 2)
      items == parseItems(s, first)
  IN  IF s = <<>> \/ s[1] # "[" \/ first > Len(s) THEN SyntaxError
      ELSE IF s[first] = "]"
        THEN IF skipWhitespace(s, first + 1) > Len(s)
               THEN [ok |-> TRUE, items |-> <<>>] ELSE SyntaxError
      ELSE IF items[Len(items)] = Unparsed THEN SyntaxError
      ELSE [ok |-> TRUE, items |-> items]

\* tokens with a "/" in them, and path.includes("/")
SlashTokens == {"src/", "main/java/com/pegasus/", "main/resources/", "/"}
hasSlash(path) == \E i \in 1..Len(path) : path[i] \in SlashTokens

\* lines 864-874: a bare Java file name goes under the package directory, a
\* bare plugin.yml or config.yml under the resources directory
fixPath(path, pluginLower) ==
  IF endsWith(path, <<".java">>) /\ ~hasSlash(path)
    THEN <<"src/", "main/java/com/pegasus/">> \o pluginLower \o <<"/">> \o path
  ELSE IF path \in {<<"plugin.yml">>, <<"config.yml">>}
    THEN <<"src/", "main/resources/">> \o path
  ELSE path

\* fileListText.match(FILE_EXTENSION_PATTERN), line 883: the runs of word
\* tokens, each up to its last token that ends in an extension, from left
\* to right
extensionMatches(s) ==
  LET matchesFrom[i \in 1..(Len(s) + 1)] ==
        LET stop == CHOOSE j \in i..Len(s) :
                      /\ \A k \in i..j : s[k] \in WordTokens
                      /\ (j = Len(s) \/ s[j + 1] \notin WordTokens)
            ends == {j \in i..stop : s[j] \in ExtensionTokens}
            end == CHOOSE j \in ends : \A k \in ends : k <= j
        IN  IF i > Len(s) THEN <<>>
            ELSE IF s[i] \notin WordTokens THEN matchesFrom[i + 1]
            ELSE IF ends = {} THEN matchesFrom[stop + 1]
            ELSE <<Sub(s, i, end)>> \o matchesFrom[end + 1]
  IN  matchesFrom[1]

\* [...new Set(fileMatches)], line 886: the first occurrence of each match
RECURSIVE unique(_)
unique(l) ==
  IF l = <<>> THEN <<>>
  ELSE LET front == unique(Sub(l, 1, Len(l) - 1))
       IN  IF \E i \in 1..Len(front) : front[i] = l[Len(l)]
             THEN front ELSE Append(front, l[Len(l)])

\* a path as an item of the file list
StringItem(path) == [type |-> "string", value |-> path]

\* lines 899-903: the default list
defaultStructure(pluginLower) ==
  <<StringItem(<<"pom.xml">>), StringItem(<<"src/", "main/resources/", "plugin.yml">>),
    StringItem(<<"src/", "main/java/com/pegasus/">> \o pluginLower
                 \o <<"/">> \o <<"Main", ".java">>)>>

\* F(v), with v evaluated once
Once(v, F(_)) == CHOOSE r \in {F(x) : x \in {v}} : TRUE

\* lines 836-852: the text of the array, by the pattern or else from the
\* first "[" to the last "]"; empty when there is none (null)
jsonArrayOf(fileListText) ==
  LET standardMatch == JSON_ARRAY_PATTERN_exec(fileListText)
  IN  IF standardMatch # <<>> THEN standardMatch
      ELSE bracketedContent(fileListText)

\* lines 836-890 of the try: the three methods, the parse with its
\* validation, the path fixes; every throw ends the try
tryMethods(fileListText, pluginLower) ==
  Once(jsonArrayOf(fileListText), LAMBDA jsonArray :
    IF jsonArray # <<>>
      THEN Once(JSON_parse(jsonArray), LAMBDA parsed :
             IF ~parsed.ok THEN [threw |-> TRUE]
             ELSE IF \E i \in 1..Len(parsed.items) :
                       parsed.items[i].type # "string"
               THEN [threw |-> TRUE]
             ELSE [threw |-> FALSE,
                   fileStructure |->
                     [i \in 1..Len(parsed.items) |->
                        StringItem(fixPath(parsed.items[i].value, pluginLower))]])
      ELSE Once(extensionMatches(fileListText), LAMBDA fileMatches :
             IF fileMatches # <<>>
               THEN [threw |-> FALSE,
                     fileStructure |->
                       [i \in 1..Len(unique(fileMatches)) |->
                          StringItem(unique(fileMatches)[i])]]
               ELSE [threw |-> TRUE]))

\* the body of the try of lines 835-895: the methods, then the test for an
\* empty list, which throws
tryFileStructure(fileListText, pluginLower) ==
  Once(tryMethods(fileListText, pluginLower), LAMBDA r :
    IF ~r.threw /\ r.fileStructure = <<>> THEN [threw |-> TRUE] ELSE r)

\* the try without its test for an empty list
extractFileStructure_NoEmptyTest(fileListText, pluginLower) ==
  Once(tryMethods(fileListText, pluginLower), LAMBDA r :
    IF r.threw
      THEN [fileStructure |-> defaultStructure(pluginLower), usedDefault |-> TRUE]
      ELSE [fileStructure |-> r.fileStructure, usedDefault |-> FALSE])

\* lines 833-905: the try and its catch, which puts the default list
extractFileStructure(fileListText, pluginLower) ==
  Once(tryFileStructure(fileListText, pluginLower), LAMBDA r :
    IF r.threw
      THEN [fileStructure |-> defaultStructure(pluginLower), usedDefault |-> TRUE]
      ELSE [fileStructure |-> r.fileStructure, usedDefault |-> FALSE])

\* number of items of the longest array in a file-list answer
MaxItems == 3

\* the items of an array as the model writes them: strings (a path, a bare
\* name, the empty string) and a number
ItemTexts ==
  {<<Quote, "pom.xml", Quote>>, <<Quote, "Main", ".java", Quote>>,
   <<Quote, "plugin.yml", Quote>>, <<Quote, "src/", "Main", ".java", Quote>>,
   <<Quote, Quote>>, <<"1">>}

\* the items of an array of at most n items, separated by commas
RECURSIVE ItemLists(_)
ItemLists(n) ==
  IF n = 0 THEN {<<>>}
  ELSE ItemLists(n - 1)
         \cup {IF l = <<>> THEN e ELSE l \o <<",", " ">> \o e :
                 l \in ItemLists(n - 1) \ {<<>>}, e \in ItemTexts}
         \cup ItemTexts

\* the answers of the file-list call: an array (well formed, with a comma
\* after the last item, without its closing bracket, without brackets at
\* all), alone or after a sentence, a sentence with a bracket in it, a
\* sentence that names files, an array whose string does not end, the
\* empty text
FileListTexts ==
  LET arrays == UNION {{<<"[">> \o l \o <<"]">>, <<"[">> \o l \o <<",", "]">>,
                        <<"[">> \o l, l} : l \in ItemLists(MaxItems)}
      intro == <<"files", " ">>
  IN  arrays
        \cup {intro \o a : a \in arrays}
        \cup {<<"[", "files", "]", " ">> \o a : a \in arrays}
        \cup {<<"files", " ", "pom.xml", " ", "src/", "Main", ".java", " ", "pom.xml">>,
              <<"[", Quote, "pom.xml", "]">>}

\* the inputs of the extraction of the file list
FileListArgs == [fn : {"filelist"}, fileListText : FileListTexts,
                 pluginName : {<<"Foo">>}]

(* ---------------------------------------------------------------------- *)
(* The fixing of the inconsistencies the consistency call reports          *)
(* ---------------------------------------------------------------------- *)

\* ['"] of the patterns of lines 1068 and 1077
QuoteMarks == {"'", Quote}

\* (?:public|private|protected) of part_001:683
Modifiers == {"public", "private", "protected"}

\* \w+ of part_001:686: the identifiers of the contents
Words == {"heal", "void", "x", "int"}

\* a field an issue of the answer does not have
Undefined == <<"undefined">>

\* files[path] as a condition: the path is a key and its content is not ""
truthy(fileTree, path) == path \in DOMAIN fileTree /\ fileTree[path] # <<>>

\* fix.match(/should be ['"]([^'"]+)['"]/), line 1068: the first group, <<>>
\* when there is no match
correctPackageOf(fix) ==
  LET at == {i \in 1..Len(fix) :
               /\ fix[i] = "should be "
               /\ i + 3 <= Len(fix)
               /\ fix[i + 1] \in QuoteMarks
               /\ fix[i + 2] \notin QuoteMarks
               /\ \E j \in (i + 3)..Len(fix) : fix[j] \in QuoteMarks}
      i == CHOOSE a \in at : \A b \in at : a <= b
      j == CHOOSE c \in (i + 3)..Len(fix) :
             fix[c] \in QuoteMarks /\ \A d \in (i + 3)..(c - 1) : fix[d] \notin QuoteMarks
  IN  IF at = {} THEN <<>> ELSE Sub(fix, i + 2, j - 1)

\* issueDesc.match(/['"]([^'"]+)['"]\s+vs\s+['"]([^'"]+)['"]/), line 1077,
\* for names of one token: the two groups, <<>> when there is no match
wrongPackagesOf(issueDesc) ==
  LET at == {i \in 1..Len(issueDesc) :
               /\ i + 8 <= Len(issueDesc)
               /\ issueDesc[i] \in QuoteMarks
               /\ issueDesc[i + 1] \notin QuoteMarks
               /\ issueDesc[i + 2] \in QuoteMarks
               /\ issueDesc[i + 3] \in Whitespace
               /\ issueDesc[i + 4] = "vs"
               /\ issueDesc[i + 5] \in Whitespace
               /\ issueDesc[i + 6] \in QuoteMarks
               /\ issueDesc[i + 7] \notin QuoteMarks
               /\ issueDesc[i + 8] \in QuoteMarks}
      i == CHOOSE a \in at : \A b \in at : a <= b
  IN  IF at = {} THEN <<>> ELSE <<issueDesc[i + 1], issueDesc[i + 7]>>

\* content.replace(/package\s+[^;]+;/, `package ${correctPackage};`), lines
\* 1073-1074: the first declaration only
replacePackage(content, correctPackage) ==
  LET at == {i \in 1..Len(content) :
               /\ content[i] = "package"
               /\ i + 1 <= Len(content)
               /\ content[i + 1] \in Whitespace
               /\ \E j \in (i + 3)..Len(content) :
                    content[j] = ";" /\ \A k \in (i + 1)..(j - 1) : content[k] # ";"}
      i == CHOOSE a \in at : \A b \in at : a <= b
      j == CHOOSE c \in (i + 3)..Len(content) :
             content[c] = ";" /\ \A k \in (i + 1)..(c - 1) : content[k] # ";"
  IN  IF at = {} THEN content
      ELSE Sub(content, 1, i - 1) \o <<"package", " ">> \o correctPackage
             \o <<";">> \o Sub(content, j + 1, Len(content))

\* content.replace(new RegExp(`import\\s+${wrongPackage}\\.`, 'g'),
\* `import ${correctPackage}.`), lines 1082-1085
replaceImports(content, wrongPackage, correctPackage) ==
  LET from[i \in 1..(Len(content) + 1)] ==
        LET name == skipWhitespace(content, i + 1)
        IN  IF i > Len(content) THEN <<>>
            ELSE IF /\ content[i] = "import"
                    /\ name > i + 1
                    /\ MatchesAt(content, <<wrongPackage, ".">>, name)
              THEN <<"import", " ">> \o correctPackage \o <<".">> \o from[name + 2]
            ELSE <<content[i]>> \o from[i + 1]
  IN  from[1]

\* lines 1066-1088: the fixing of a package issue.  The tree is left alone
\* when the fix names no package or one of the two files is missing or
\* empty.
fixPackageIssue(fileTree, issue) ==
  LET correctPackage == correctPackageOf(issue.fix)
      wrong == wrongPackagesOf(issue.issue)
      wrongPackage == IF includes(issue.issue, <<issue.fileA>>)
                        THEN wrong[1] ELSE wrong[2]
      declared == [p \in DOMAIN fileTree |->
                     IF p \in {issue.fileA, issue.fileB}
                       THEN replacePackage(fileTree[p], correctPackage) ELSE fileTree[p]]
  IN  IF correctPackage = <<>> \/ ~truthy(fileTree, issue.fileA)
                               \/ ~truthy(fileTree, issue.fileB)
        THEN fileTree
      ELSE IF wrong = <<>> THEN declared
      ELSE [p \in DOMAIN fileTree |->
              replaceImports(declared[p], wrongPackage, correctPackage)]

\* fixText.match(/(?:public|private|protected)[\s\S]+?;/), part_001:683:
\* the signature the model answers, <<>> when there is none
correctSignatureOf(fixText) ==
  LET at == {i \in 1..Len(fixText) :
               /\ fixText[i] \in Modifiers
               /\ \E j \in (i + 2)..Len(fixText) : fixText[j] = ";"}
      i == CHOOSE a \in at : \A b \in at : a <= b
      j == CHOOSE c \in (i + 2)..Len(fixText) :
             fixText[c] = ";" /\ \A k \in (i + 2)..(c - 1) : fixText[k] # ";"
  IN  IF at = {} THEN <<>> ELSE Sub(fixText, i, j)

\* correctSignature.match(/\s(\w+)\s*\(/)?.[1], part_001:686: "" when there
\* is no match
methodNameOf(correctSignature) ==
  LET at == {i \in 1..Len(correctSignature) :
               /\ correctSignature[i] \in Whitespace
               /\ i + 2 <= Len(correctSignature)
               /\ correctSignature[i + 1] \in Words
               /\ skipWhitespace(correctSignature, i + 2) <= Len(correctSignature)
               /\ correctSignature[skipWhitespace(correctSignature, i + 2)] = "("}
      i == CHOOSE a \in at : \A b \in at : a <= b
  IN  IF at = {} THEN "" ELSE correctSignature[i + 1]

\* content.replace(methodRegex, correctSignature.replace(/;$/, "") + " {"),
\* part_001:690-700: a modifier, the first later occurrence of the name
\* with "(" after it, the first later ")" with "{" after it
replaceSignature(content, methodName, correctSignature) ==
  LET opens(n) == /\ content[n] = methodName
                  /\ skipWhitespace(content, n + 1) <= Len(content)
                  /\ content[skipWhitespace(content, n + 1)] = "("
      closes(n, c) == /\ c >= skipWhitespace(content, n + 1) + 2
                      /\ content[c] = ")"
                      /\ skipWhitespace(content, c + 1) <= Len(content)
                      /\ content[skipWhitespace(content, c + 1)] = "{"
      ends(i) == {c \in i..Len(content) :
                    \E n \in (i + 2)..c :
                      /\ opens(n) /\ closes(n, c)
                      /\ \A m \in (i + 2)..(n - 1) :
                           ~(opens(m) /\ \E d \in m..Len(content) : closes(m, d))
                      /\ \A d \in n..(c - 1) : ~closes(n, d)}
      from[i \in 1..(Len(content) + 1)] ==
        IF i > Len(content) THEN <<>>
        ELSE IF content[i] \in Modifiers /\ ends(i) # {}
          THEN Sub(correctSignature, 1, Len(correctSignature) - 1) \o <<" ", "{">>
                 \o from[skipWhitespace(content, (CHOOSE c \in ends(i) : TRUE) + 1) + 1]
        ELSE <<content[i]>> \o from[i + 1]
  IN  from[1]

\* part_001:662-703: the branch of the older variant for an issue about a
\* method signature or a parameter; fixText is the answer of the model
fixSignatureIssue(fileTree, issue, fixText) ==
  LET correctSignature == correctSignatureOf(fixText)
      methodName == methodNameOf(correctSignature)
  IN  IF correctSignature = <<>> \/ methodName = "" THEN fileTree
      ELSE [p \in DOMAIN fileTree |->
              IF p \in {issue.fileA, issue.fileB}
                THEN replaceSignature(fileTree[p], methodName, correctSignature)
                ELSE fileTree[p]]

\* one turn of the loop of lines 1063-1090 (variant "apiRoutes") or of
\* part_001:631-704 (variant "part_001"): the tree after the issue, and
\* whether the turn threw.  A turn throws on a field the issue does not
\* have and, in the older variant, on a file that is not in the tree.
fixIssue(variant, fileTree, issue, fixText) ==
  LET issueDesc == toLowerCaseText(issue.issue)
      absent == issue.fileA \notin DOMAIN fileTree \/ issue.fileB \notin DOMAIN fileTree
  IN  IF issue.issue = Undefined THEN [threw |-> TRUE, files |-> fileTree]
      ELSE IF includes(issueDesc, <<"package">>)
        THEN IF issue.fix = Undefined THEN [threw |-> TRUE, files |-> fileTree]
             ELSE IF variant = "part_001" /\ correctPackageOf(issue.fix) # <<>>
                     /\ absent
               THEN [threw |-> TRUE, files |-> fileTree]
             ELSE [threw |-> FALSE, files |-> fixPackageIssue(fileTree, issue)]
      ELSE IF /\ variant = "part_001"
              /\ \/ includes(issueDesc, <<"method signature">>)
                 \/ includes(issueDesc, <<"parameter">>)
        THEN IF absent THEN [threw |-> TRUE, files |-> fileTree]
             ELSE [threw |-> FALSE, files |-> fixSignatureIssue(fileTree, issue, fixText)]
      ELSE [threw |-> FALSE, files |-> fileTree]

\* the loop over the issues: it ends with the first turn that throws
fixIssues(variant, fileTree, issues, fixText) ==
  LET after[k \in 0..Len(issues)] ==
        IF k = 0 THEN [threw |-> FALSE, files |-> fileTree]
        ELSE IF after[k - 1].threw THEN after[k - 1]
        ELSE fixIssue(variant, after[k - 1].files, issues[k], fixText)
  IN  after[Len(issues)]

\* number of issues of the longest answer of the consistency call
MaxIssues == 2

\* contents of the files of a tree: a class in package com.a that imports
\* from com.b and has a method, a class in com.b, a manifest, ""
JavaA ==
  <<"package", " ", "com.a", ";", "\n", "import", " ", "com.b", ".", "Util", ";",
    "\n", "public", " ", "void", " ", "heal", "(", "int", " ", "x", ")", " ", "{", "}">>
JavaB == <<"package", " ", "com.b", ";", "\n", "public", " ", "class", " ", "Util">>
Yml == <<"name:", " ", "Foo", "\n">>

\* the trees the consistency call is made on (more than one file)
IssueTrees ==
  {[p \in {"Main.java", "Util.java"} |-> IF p = "Main.java" THEN JavaA ELSE JavaB],
   [p \in {"Main.java", "Util.java", "plugin.yml"} |->
      CASE p = "Main.java" -> JavaA [] p = "Util.java" -> JavaB [] OTHER -> Yml],
   [p \in {"Main.java", "plugin.yml"} |-> IF p = "Main.java" THEN <<>> ELSE Yml]}

\* descriptions and fixes of issues
IssueDescs ==
  {<<"Package", " ", "'", "com.a", "'", " ", "vs", " ", "'", "com.b", "'", " ",
     "in", " ", "Main.java">>,
   <<"package", " ", "differs">>,
   <<"Method signature", " ", "mismatch">>,
   <<"missing", " ", "import">>,
   Undefined}
IssueFixes ==
  {<<"should be ", "'", "com.c", "'">>, <<"use", " ", "com.c">>, Undefined}

\* the issues of an answer; "Other.java" is a path that is not in the tree
Issues ==
  [fileA : {"Main.java", "Other.java"}, fileB : {"Util.java"},
   issue : IssueDescs, fix : IssueFixes]

\* the answers of the model in the method-signature branch
FixTexts ==
  {<<"public", " ", "void", " ", "heal", "(", ")", ";">>, <<"no", " ", "idea">>}

\* the lists of at most n issues
RECURSIVE IssueLists(_)
IssueLists(n) ==
  IF n = 0 THEN {<<>>}
  ELSE IssueLists(n - 1)
         \cup {Append(l, i) : l \in IssueLists(n - 1), i \in Issues}

\* the inputs of the fixing of the inconsistencies
IssueArgs ==
  [fn : {"issues"}, variant : {"apiRoutes", "part_001"}, files : IssueTrees,
   issues : IssueLists(MaxIssues) \ {<<>>}, fixText : FixTexts]

(* ---------------------------------------------------------------------- *)
(* validatePluginFiles on the contents of the tree                         *)
(* ---------------------------------------------------------------------- *)

\* the texts validatePluginFiles looks for in a Java source
ExtendsJavaPlugin == {"extends JavaPlugin", "extends org.bukkit.plugin.java.JavaPlugin"}
OnEnable == {"void onEnable()", "public void onEnable"}

\* names every object inherits from Object.prototype
ObjectPrototype == {<<"constructor">>, <<"toString">>}

\* Object.keys(obj), as a set
pathsOf(obj) == {obj[i].path : i \in 1..Len(obj)}

\* obj[filePath] as a condition (lines 374, 378, 425): an own key whose
\* content is not "", or a name the object inherits and does not define
hasTruthy(obj, filePath) ==
  \/ \E i \in 1..Len(obj) : obj[i].path = filePath /\ obj[i].content # <<>>
  \/ filePath \in ObjectPrototype /\ filePath \notin pathsOf(obj)

\* the first key that ends with the suffix (Object.keys(...).find), 0 when
\* there is none
findKey(obj, suffix) ==
  LET with == {i \in 1..Len(obj) : endsWith(obj[i].path, suffix)}
  IN  IF with = {} THEN 0 ELSE CHOOSE i \in with : \A j \in with : i <= j

\* lines 275-315: the first Java source that extends JavaPlugin, or else
\* the first one with an onEnable method; 0 when there is none
mainClassIndex(obj) ==
  LET java == {i \in 1..Len(obj) : endsWith(obj[i].path, <<".java">>)}
      byExtends == {i \in java : \E w \in ExtendsJavaPlugin :
                                   includes(obj[i].content, <<w>>)}
      byOnEnable == {i \in java : \E w \in OnEnable :
                                    includes(obj[i].content, <<w>>)}
      found == IF byExtends # {} THEN byExtends ELSE byOnEnable
  IN  IF found = {} THEN 0 ELSE CHOOSE i \in found : \A j \in found : i <= j

\* path.match(/([^\/]+)\.java$/), lines 279-282: the name before ".java"
classNameOf(path) ==
  IF Len(path) >= 2 /\ path[Len(path)] = ".java" /\ path[Len(path) - 1] # "/"
    THEN <<path[Len(path) - 1]>> ELSE <<>>

\* content.match(/package\s+([\w.]+);/), lines 284-287: the name of the
\* first package declaration
declaredPackage(content) ==
  LET ends(i) == {j \in (i + 2)..Len(content) :
                    /\ content[j] = ";"
                    /\ j > i + 2
                    /\ \A k \in (i + 2)..(j - 1) :
                         content[k] \notin Whitespace \cup {";"}}
      at == {i \in 1..(Len(content) - 3) :
               /\ content[i] = "package"
               /\ content[i + 1] \in Whitespace
               /\ ends(i) # {}}
      first == CHOOSE i \in at : \A j \in at : i <= j
  IN  IF at = {} THEN <<>>
      ELSE Sub(content, first + 2, (CHOOSE j \in ends(first) : TRUE) - 1)

\* lines 358-364: the manifest put in the place of the one of the tree when
\* no main class is known
fallbackPluginYml(pluginName) ==
  <<"name:", " ">> \o pluginName
    \o <<"\n", "version:", " ", "1.0", "\n", "main:", " ", "com", ".", "pegasus", ".">>
    \o toLowerCaseText(pluginName) \o <<".">> \o pluginName
    \o <<"\n", "api-", "version:", " ", "1.19", "\n",
         "description: A custom Minecraft plugin">>

\* lines 268 and 317-368: the copy of the tree with its manifest set right
fixedPluginYml(obj, pluginName) ==
  LET main == mainClassIndex(obj)
      mainClassPath == IF main = 0 THEN <<>> ELSE classNameOf(obj[main].path)
      packageName == IF main = 0 THEN <<>> ELSE declaredPackage(obj[main].content)
      yml == findKey(obj, <<"plugin.yml">>)
  IN  IF yml = 0 THEN obj
      ELSE IF mainClassPath # <<>> /\ packageName # <<>>
        THEN setProperty(obj, obj[yml].path,
                         validatePluginYml(obj[yml].content, pluginName,
                                           packageName \o <<".">> \o mainClassPath))
      ELSE setProperty(obj, obj[yml].path, fallbackPluginYml(pluginName))

\* lines 373-386: the files the model is asked about
criticalFiles(obj, validatedFiles) ==
  LET main == mainClassIndex(obj)
      yml == findKey(obj, <<"plugin.yml">>)
      pom == findKey(validatedFiles, <<"pom.xml">>)
  IN  (IF main # 0 /\ hasTruthy(validatedFiles, obj[main].path)
         THEN {obj[main].path} ELSE {})
        \cup (IF yml # 0 /\ hasTruthy(validatedFiles, obj[yml].path)
                THEN {obj[yml].path} ELSE {})
        \cup (IF pom # 0 THEN {validatedFiles[pom].path} ELSE {})

\* lines 419-429: the blocks of the answer, one after the other; a block
\* is applied when validatedFiles[filePath] is truthy
RECURSIVE applyValidation(_, _, _)
applyValidation(validationText, lastIndex, validatedFiles) ==
  LET fileMatch == FILE_PATTERN_exec(validationText, lastIndex)
  IN  IF ~fileMatch.found THEN validatedFiles
      ELSE LET filePath == trim(fileMatch.path)
               fixedContent == cleanContent(trim(fileMatch.body))
           IN  applyValidation(validationText, fileMatch.lastIndex,
                               IF hasTruthy(validatedFiles, filePath)
                                 THEN setProperty(validatedFiles, filePath,
                                                  fixedContent)
                                 ELSE validatedFiles)

\* validatePluginFiles, lines 264-444, on the contents of the files: the
\* validation is the outcome of the model call (thrown, or a text)
validatedFilesOf(obj, pluginName, validation) ==
  LET validatedFiles == fixedPluginYml(obj, pluginName)
  IN  IF criticalFiles(obj, validatedFiles) = {} \/ validation.threw
        THEN validatedFiles
      ELSE IF includes(validation.text, <<"NO_ERRORS_FOUND">>)
        THEN validatedFiles
      ELSE applyValidation(validation.text, 1, validatedFiles)

\* a file of a tree
File(path, content) == [path |-> path, content |-> content]

\* the trees validatePluginFiles is called on: with a main class, a
\* manifest and a build descriptor; with a manifest and no main class;
\* without a critical file; with a main class whose file is empty
ValidateTrees ==
  {<<File(<<"Main", ".java">>,
          <<"package", " ", "x", ";", "\n", "extends JavaPlugin">>),
     File(<<"src/main/resources/", "plugin.yml">>, <<"name:", " ", "Old", "\n">>),
     File(<<"pom.xml">>, <<"x">>)>>,
   <<File(<<"Main", ".java">>, <<"x">>),
     File(<<"plugin.yml">>, <<"name:", " ", "Foo", "\n">>)>>,
   <<File(<<"Util", ".java">>, <<"x">>)>>,
   <<File(<<"Main", ".java">>, <<>>), File(<<"pom.xml">>, <<"x">>)>>}

\* the blocks of a validation answer: for a file of the tree, for a file
\* that is not in it, for a name that is no file
ValidationBlocks ==
  {Block(p, b) : p \in {<<"Main", ".java">>, <<" ", "pom.xml", " ">>,
                        <<"Other", ".java">>, <<"constructor">>},
                 b \in {<<"y">>, <<Fence, "java", "\n", "y", "\n", Fence>>}}

\* the answers of the validation call
ValidationTexts ==
  {<<>>, <<"NO_ERRORS_FOUND">>}
    \cup ValidationBlocks
    \cup {a \o b : a \in ValidationBlocks, b \in ValidationBlocks}
    \cup {a \o <<"\n", "NO_ERRORS_FOUND">> : a \in ValidationBlocks}

\* the inputs of validatePluginFiles
ValidateArgs ==
  [fn : {"validate"}, files : ValidateTrees, pluginName : {<<"Foo">>},
   validation : [threw : {FALSE}, text : ValidationTexts]
                  \cup {[threw |-> TRUE, text |-> <<>>]}]

\* number of pieces of the longest model answer
MaxBlocks == 3

\* the inputs of the extraction loop
ExtractArgs == [fn : {"extract"}, text : TextsOf(MaxBlocks)]

\* the state of the service around the function under study
serviceVars == <<serverUp, rpc, req, resp, pluginCache, fileStructure, usedDefault,
                 files, modelError, genPath, manifest, compilationResult, modelCalls,
                 cachedOnArrival, fixCache, fixSent, served, builds, now, expires,
                 staleOnArrival,
                 scriptState, nestVars>>

\* lines 648-671: the answer of the fix call goes through the extraction loop
ExtractFixedFiles ==
  /\ fnArg.fn = "extract"
  /\ ~fnRes.done
  /\ fnRes' = [done |-> TRUE, files |-> extractUpdatedFiles(fnArg.text, 1, <<>>)]
  /\ UNCHANGED <<fnArg, serviceVars>>

\* lines 948-987 (create route), 661-667 (fix route) or 323-355
\* (validatePluginFiles): the content of a file is processed
ProcessFile ==
  /\ fnArg.fn = "process"
  /\ ~fnRes.done
  /\ LET out == processFile(fnArg.route, fnArg.filePath, fnArg.content,
                            fnArg.pluginName)
     IN  fnRes' = [done |-> TRUE, passes |-> 1, once |-> out, content |-> out]
  /\ UNCHANGED <<fnArg, serviceVars>>

\* lines 831-905: the answer of the file-list call becomes fileStructure
ExtractFileStructure ==
  /\ fnArg.fn = "filelist"
  /\ ~fnRes.done
  /\ \E r \in {extractFileStructure(fnArg.fileListText,
                                      toLowerCaseText(fnArg.pluginName))} :
       fnRes' = [done |-> TRUE, fileStructure |-> r.fileStructure,
                 usedDefault |-> r.usedDefault]
  /\ UNCHANGED <<fnArg, serviceVars>>

\* lines 1059-1095 (part_001:631-704): the issues of the consistency answer
\* are applied to the tree
FixInconsistencies ==
  /\ fnArg.fn = "issues"
  /\ ~fnRes.done
  /\ \E r \in {fixIssues(fnArg.variant, fnArg.files, fnArg.issues, fnArg.fixText)} :
       fnRes' = [done |-> TRUE, files |-> r.files, threw |-> r.threw]
  /\ UNCHANGED <<fnArg, serviceVars>>

\* validatePluginFiles, lines 264-444: the result, and the tree it was
\* called on as it is after the call (line 268 works on a copy)
ValidatePluginFiles ==
  /\ fnArg.fn = "validate"
  /\ ~fnRes.done
  /\ \E r \in {validatedFilesOf(fnArg.files, fnArg.pluginName, fnArg.validation)} :
       fnRes' = [done |-> TRUE, validatedFiles |-> r, files |-> fnArg.files]
  /\ UNCHANGED <<fnArg, serviceVars>>

\* a request reaches verifyToken: it calls next() or answers 401
VerifyToken ==
  /\ fnArg.fn = "auth"
  /\ ~fnRes.done
  /\ fnRes' = [done |-> TRUE,
               auth |-> verifyToken(fnArg.variant, fnArg.API_TOKEN, fnArg.authHeader)]
  /\ UNCHANGED <<fnArg, serviceVars>>

\* the processed content goes through the processing a second time
ProcessAgain ==
  /\ fnArg.fn = "process"
  /\ fnRes.done
  /\ fnRes.passes = 1
  /\ fnRes' = [fnRes EXCEPT
                 !.passes = 2,
                 !.content = processFile(fnArg.route, fnArg.filePath, fnRes.once,
                                         fnArg.pluginName)]
  /\ UNCHANGED <<fnArg, serviceVars>>

(* ---------------------------------------------------------------------- *)
(* Specification                                                           *)
(* ---------------------------------------------------------------------- *)

Next ==
  \/ CreateReceive
  \/ ExtractPluginName
  \/ ParallelGeneration
  \/ FileListGeneration
  \/ MultiFileGeneration
  \/ FallbackGeneration
  \/ ConsistencyAndCache
  \/ ValidateBeforeCompile
  \/ CompileSetup
  \/ CompileValidate
  \/ CompileWriteAndSpawn
  \/ ScriptPreflight
  \/ InitialBuild
  \/ CaptureErrors
  \/ FixRound
  \/ Rebuild
  \/ DegradedBuild
  \/ ScriptFinish
  \/ BashClose
  \/ CreateRespondCompiled

Spec == Init /\ [][Next]_vars

\* every step of the handler and of the script is eventually taken when it
\* can be: the event loop runs ready callbacks and the shell runs the next
\* command of the script
FairSpec == Spec /\ WF_vars(Next)

\* the two cached routes serving MaxRequests requests one after the other,
\* each from its arrival to the response or to the start of the compilation
RouteNext ==
  \/ CreateReceive
  \/ ExtractPluginName
  \/ ParallelGeneration
  \/ FileListGeneration
  \/ MultiFileGeneration
  \/ FallbackGeneration
  \/ ConsistencyAndCache
  \/ FixHandle
  \/ NextRequest

RouteSpec == Init /\ [][RouteNext]_vars

\* create requests with compilation that overlap in time
BuildDirNext ==
  \/ \E r \in Requests : CreateAccept(r)
  \/ \E r \in Requests : CompileStart(r)
  \/ \E r \in Requests : CompileClose(r)
  \/ Tick

BuildDirSpec == Init /\ [][BuildDirNext]_vars

\* the two cached routes while the clock of the cache advances
CacheNext ==
  \/ RouteNext
  \/ Tick

CacheSpec == Init /\ [][CacheNext]_vars

\* a create request with compilation has generated its tree, stored it in
\* the cache and calls compilePlugin
CompileInit ==
  /\ serverUp = TRUE
  /\ rpc = "cp_setup"
  /\ req \in [present : {TRUE}, prompt : {TRUE}, compile : {TRUE},
              async : {FALSE}, buildId : {"given", "none"}]
  /\ resp = NoResp
  /\ files \in {DefaultStructure, {"plugin.yml", "Main.java"}}
  /\ pluginCache = [hit |-> TRUE, files |-> files]
  /\ fileStructure = DefaultStructure
  /\ usedDefault = FALSE
  /\ modelError = FALSE
  /\ genPath = "multi"
  /\ manifest = multiFileManifest(<<"name:", " ", "Old", "\n">>)
  /\ compilationResult = NoResult
  /\ modelCalls = 7
  /\ cachedOnArrival = FALSE
  /\ fixCache = EmptyCache
  /\ fixSent = NoPrompt
  /\ served = 0
  /\ builds = [r \in Requests |-> NoBuild]
  /\ now = 0
  /\ expires = setTime(EmptyCache, CreateKey, 0)
  /\ staleOnArrival = FALSE
  /\ nested = NoNested
  /\ statusAnswer = NoStatus
  /\ spc = "none"
  /\ tree = EmptyTree
  /\ target = {}
  /\ resultFile = NoFile
  /\ dirs = {}
  /\ exitCode = -1
  /\ stdoutData = {}
  /\ AI_FIX_ATTEMPTS = 0
  /\ BUILD_SUCCESS = FALSE
  /\ FIX_RESPONSE = NoFix
  /\ BUILD_ERRORS = EmptyTree
  /\ mvnCalls = 0
  /\ packageCalls = 0
  /\ captureCalls = 0
  /\ degradedCalls = 0
  /\ fixRequests = 0
  /\ allMvnFailed = TRUE
  /\ allFixOk = TRUE
  /\ lastEvent = "none"
  /\ fnArg = NoArg
  /\ fnRes = NoRes

\* compilePlugin and the build script, whose requests to /api/fix the fix
\* route serves; the run is short against the time the cache keeps a key
NestedNext ==
  \/ CompileSetup
  \/ CompileValidate
  \/ CompileWriteAndSpawn
  \/ ScriptPreflight
  \/ InitialBuild
  \/ CaptureErrors
  \/ FixRequestSend
  \/ FixServe
  \/ FixReceive
  \/ Rebuild
  \/ DegradedBuild
  \/ ScriptFinish
  \/ BashClose
  \/ CreateRespondCompiled

\* the build directory of the request is a new one
NestedInit == CompileInit /\ req.buildId = "none"

NestedSpec == NestedInit /\ [][NestedNext]_vars

\* one create request with compilation, its script with the fix rounds
\* answered from outside, and status requests at any time
StatusNext ==
  \/ CompileSetup
  \/ CompileValidate
  \/ CompileWriteAndSpawn
  \/ ScriptPreflight
  \/ InitialBuild
  \/ CaptureErrors
  \/ FixRound
  \/ Rebuild
  \/ DegradedBuild
  \/ ScriptFinish
  \/ BashClose
  \/ CreateRespondCompiled
  \/ StatusRequest

StatusSpec == CompileInit /\ [][StatusNext]_vars

\* create requests with compilation one after the other, each with its
\* script
RunsNext ==
  \/ CompileSetup
  \/ CompileValidate
  \/ CompileWriteAndSpawn
  \/ ScriptPreflight
  \/ InitialBuild
  \/ CaptureErrors
  \/ FixRound
  \/ Rebuild
  \/ DegradedBuild
  \/ ScriptFinish
  \/ BashClose
  \/ CreateRespondCompiled
  \/ NextBuild

RunsSpec == CompileInit /\ [][RunsNext]_vars

\* the functions of the routes, each applied to an input of its own
FunctionArgs ==
  ExtractArgs \cup ProcessArgs \cup AuthArgs \cup FileListArgs \cup IssueArgs
    \cup ValidateArgs

FunctionInit ==
  /\ Idle
  /\ fnArg \in FunctionArgs
  /\ fnRes = NoRes

FunctionNext ==
  \/ ExtractFixedFiles
  \/ ProcessFile
  \/ ProcessAgain
  \/ VerifyToken
  \/ ExtractFileStructure
  \/ FixInconsistencies
  \/ ValidatePluginFiles

FunctionSpec == FunctionInit /\ [][FunctionNext]_vars

(* ---------------------------------------------------------------------- *)
(* Properties of the build script and of compilePlugin                     *)
(* ---------------------------------------------------------------------- *)

\* the script has terminated
RunDone == spc \in {"exited", "closed"}

\* a terminated run that invoked Maven, in which every Maven invocation
\* failed and every fix request was answered with success
AlwaysFailingRun == RunDone /\ mvnCalls > 0 /\ allMvnFailed /\ allFixOk

\* C1 as stated: with a compiler that always fails and a fixer that always
\* answers, the run makes MAX fix attempts and one degraded build, reports
\* success:false, and invokes the compiler MAX + 2 times in total.
C1_Original ==
  AlwaysFailingRun =>
    /\ fixRequests = MAX_AI_FIX_ATTEMPTS
    /\ degradedCalls = 1
    /\ ~resultFile.success
    /\ mvnCalls = MAX_AI_FIX_ATTEMPTS + 2

\* C1 amended: with a compiler that always fails and a fixer that always
\* answers, the run makes exactly MAX fix attempts, then exactly one degraded
\* build, then exits with status 1 and success:false in build_result.json
\* (and in the CompileResult).  The packaging builds number MAX + 2 (initial,
\* one rebuild per fix, degraded); every fix round also runs one errors-only
\* compile, so Maven is invoked 2 * MAX + 2 times in total.
C1_Termination ==
  AlwaysFailingRun =>
    /\ AI_FIX_ATTEMPTS = MAX_AI_FIX_ATTEMPTS
    /\ fixRequests = MAX_AI_FIX_ATTEMPTS
    /\ degradedCalls = 1
    /\ lastEvent = "degraded"
    /\ exitCode = 1
    /\ resultFile.exists /\ ~resultFile.success
    /\ packageCalls + degradedCalls = MAX_AI_FIX_ATTEMPTS + 2
    /\ captureCalls = MAX_AI_FIX_ATTEMPTS
    /\ mvnCalls = 2 * MAX_AI_FIX_ATTEMPTS + 2
    /\ (compilationResult.resolved => ~compilationResult.success)

\* C1 witness: an always-failing run was closed by compilePlugin
C1_Witness ==
  /\ AlwaysFailingRun
  /\ compilationResult.resolved
  /\ degradedCalls = 1
  /\ packageCalls = MAX_AI_FIX_ATTEMPTS + 1

\* the initial build failed and the first rebuild after a fix passed with
\* its archive; compilePlugin has resolved
FailOnceThenSucceed ==
  /\ compilationResult.resolved
  /\ AI_FIX_ATTEMPTS = 1
  /\ packageCalls = 2
  /\ BUILD_SUCCESS

\* C2 as stated: when the build fails once and the first rebuild passes,
\* exactly one fix round occurs and the result reports attemptsUsed = 2,
\* success:true, degraded:false.
C2_Original ==
  FailOnceThenSucceed =>
    /\ fixRequests = 1
    /\ compilationResult.success
    /\ "attemptsUsed" \in DOMAIN compilationResult
    /\ compilationResult.attemptsUsed = 2
    /\ "degraded" \in DOMAIN compilationResult
    /\ ~compilationResult.degraded

\* a build recorded as successful in build_result.json
RecordedSuccess == resultFile.exists /\ resultFile.success

\* C3: the fix-attempt counter never exceeds MAX and moves only by +1, once
\* per loop iteration (the step that captures the errors); the loop is left
\* only when a rebuild succeeded (Maven passed and its archive was found) or
\* when the counter has reached MAX; once a build has succeeded the counter
\* stays and no fix request is issued.
C3_AttemptCounter ==
  /\ [](AI_FIX_ATTEMPTS <= MAX_AI_FIX_ATTEMPTS)
  /\ [][/\ AI_FIX_ATTEMPTS' \in {AI_FIX_ATTEMPTS, AI_FIX_ATTEMPTS + 1}
        /\ (AI_FIX_ATTEMPTS' = AI_FIX_ATTEMPTS + 1) <=> (captureCalls' = captureCalls + 1)
        /\ (degradedCalls' # degradedCalls \/ (lastEvent' = "finish" /\ lastEvent # "finish"))
             => (BUILD_SUCCESS \/ AI_FIX_ATTEMPTS = MAX_AI_FIX_ATTEMPTS)
        /\ (BUILD_SUCCESS \/ RecordedSuccess)
             => (AI_FIX_ATTEMPTS' = AI_FIX_ATTEMPTS /\ fixRequests' = fixRequests)
        /\ (BUILD_SUCCESS' /\ ~BUILD_SUCCESS) => spc' = "after_loop"]_vars

\* C3 witness: the rebuild of the last allowed iteration succeeded and the
\* script ended
C3_Witness ==
  /\ spc = "exited"
  /\ BUILD_SUCCESS
  /\ AI_FIX_ATTEMPTS = MAX_AI_FIX_ATTEMPTS
  /\ lastEvent = "finish"

\* C4 as stated: when compilation was requested and the build failed after
\* all fix attempts and the degraded build, the response is not an HTTP
\* error, its success flag is false and it carries the generated files.
C4_Original ==
  (/\ rpc = "done"
   /\ req.compile
   /\ compilationResult.resolved
   /\ AI_FIX_ATTEMPTS = MAX_AI_FIX_ATTEMPTS
   /\ degradedCalls = 1
   /\ ~compilationResult.success)
    => /\ resp.sent
       /\ resp.code < 400
       /\ resp.success = FALSE
       /\ resp.data = files

\* C5 as stated: when the fix attempts are exhausted and the build without
\* shading passes, the result returned to the caller has success = true and
\* degraded = true.
C5_Original ==
  (/\ compilationResult.resolved
   /\ AI_FIX_ATTEMPTS = MAX_AI_FIX_ATTEMPTS
   /\ degradedCalls = 1
   /\ resultFile.exists
   /\ "noShade" \in DOMAIN resultFile)
    => /\ compilationResult.success
       /\ "degraded" \in DOMAIN compilationResult
       /\ compilationResult.degraded

\* C6: a fix round whose answer is not a success envelope changes no file of
\* the tree (nor the result file), keeps the attempt it was counted as,
\* leaves the script in its loop, and the next step of the run is a Maven
\* invocation, with no further fix request or write in between.
C6_FailedFixRound ==
  /\ [][(spc = "request" /\ FIX_RESPONSE'.status # "success")
          => /\ tree' = tree
             /\ resultFile' = resultFile
             /\ spc' = "loop"
             /\ exitCode' = -1
             /\ fixRequests' = fixRequests + 1
             /\ AI_FIX_ATTEMPTS' = AI_FIX_ATTEMPTS
             /\ fixRequests' = AI_FIX_ATTEMPTS']_vars
  /\ [][(spc = "loop" /\ lastEvent = "fix_rejected")
          => /\ mvnCalls' = mvnCalls + 1
             /\ tree' = tree
             /\ fixRequests' = fixRequests]_vars

\* C6 witness: after a rejected fix answer the run has captured the errors
\* of its next iteration
C6_Witness ==
  /\ spc = "request"
  /\ AI_FIX_ATTEMPTS >= 2
  /\ FIX_RESPONSE.received
  /\ FIX_RESPONSE.status = "error"
  /\ lastEvent = "capture"

\* C7 as stated: a compiler subprocess that does not exit is killed after a
\* timeout and the run goes on, so compilePlugin eventually resolves and
\* the request eventually gets a response.
C7_Original ==
  [](spc = "hung" => <>(compilationResult.resolved /\ resp.sent))

\* C8 as stated: a failure to invoke the build subprocess (shell not found,
\* script exiting in its preflight checks) does not crash the server and
\* makes compilePlugin resolve with success = false and the failure text in
\* buildOutput.
C8_Original ==
  /\ lastEvent = "spawn_error" => serverUp
  /\ (compilationResult.resolved /\ lastEvent = "preflight_exit")
       => /\ ~compilationResult.success
          /\ compilationResult.buildOutput \cap {"missing_tools", "no_pom"} # {}

\* C9 as stated: when writing the tree to the build directory fails, the
\* request ends with an HTTP 500 response; it never hangs.
C9_Original ==
  [](lastEvent = "fs_error" => <>(resp.sent /\ resp.code = 500))

\* C10 as stated: a failed model call of a create request is recovered
\* locally: the request does not end in an error response (and a failed
\* file-list extraction falls back to the default file structure).
C10_Original ==
  /\ (resp.sent /\ modelError) => resp.code < 400
  /\ usedDefault => fileStructure = DefaultStructure

(* ---------------------------------------------------------------------- *)
(* Properties of the routes                                                *)
(* ---------------------------------------------------------------------- *)

\* C11 as stated: after a create request was accepted in async mode (HTTP
\* 202, status pending), the generation goes on in the background: the
\* build is eventually processed and its status eventually becomes
\* completed or failed.
C11_Original ==
  []((resp.sent /\ resp.code = 202) => <>(getBuildStatus \in {"completed", "failed"}))

\* the request being handled is a fix request
IsFixRequest == req.present /\ "buildErrors" \in DOMAIN req

\* the request being handled was answered with HTTP 200 and the cache held
\* an entry under its key when it arrived
AnsweredFromCache == rpc = "done" /\ resp.code = 200 /\ cachedOnArrival

\* C12: a create or fix request whose key the cache holds is answered with
\* the cached response, without any model call and without a compiler
\* subprocess, also when compilation was requested.
C12_CacheHit ==
  AnsweredFromCache =>
    /\ modelCalls = 0
    /\ ~fixSent.called
    /\ resp.message \in {"cached", "fixed_cached"}
    /\ spc = "none"
    /\ ~compilationResult.resolved

\* C12 witness: a create request that asked for compilation was answered
\* from the entry an earlier request stored
C12_Witness ==
  /\ AnsweredFromCache
  /\ ~IsFixRequest
  /\ req.compile
  /\ served = 1
  /\ resp.data = pluginCache.files

\* C13 as stated: the response of a cache hit is observably equivalent to
\* the response of re-running the pipeline on the same request: the same
\* tree and the same fields (changedFiles for a fix; buildId and, when
\* compilation was requested, the compile results for a create).
C13_Original ==
  AnsweredFromCache =>
    IF IsFixRequest
      THEN /\ DOMAIN resp = DOMAIN FixedResponse(resp.data)
           /\ resp.changedFiles = Cardinality(resp.data)
      ELSE /\ resp.data = pluginCache.files
           /\ "buildId" \in DOMAIN resp
           /\ (req.compile => {"buildOutput", "jarPath"} \subseteq DOMAIN resp)

\* the error text and the set of paths a fix cache key was made from
KeyText(key) == key[2][1]
KeyPaths(key) == {key[2][2][i] : i \in 1..Len(key[2][2])}

\* C14 as stated: two fix requests with the same error text and the same
\* set of file paths, listed in any order, get the same cache key: every
\* stored key made from the text and the path set of the request being
\* handled is the key of that request.
C14_Original ==
  (rpc = "done" /\ IsFixRequest /\ resp.code = 200) =>
    \A k \in DOMAIN fixCache :
      (/\ KeyText(k) = req.buildErrors
       /\ KeyPaths(k) = {req.files.keys[i] : i \in 1..Len(req.files.keys)})
        => k = cacheKey(req.buildErrors, req.files.keys)

\* C19: the model of a fix request is chosen from the length of the error
\* text and the number of files alone: the expensive model iff the length
\* exceeds 500 or the count exceeds 5, the cheap one at exactly 500 and 5,
\* and the precision profile in both cases.
C19_ModelSelection ==
  fixSent.called =>
    /\ fixSent.profile = "precision"
    /\ fixSent.model \in {"pro", "flash"}
    /\ fixSent.model = "pro"
         <=> (req.buildErrors.length > 500 \/ Len(req.files.keys) > 5)
    /\ (req.buildErrors.length = 500 /\ Len(req.files.keys) = 5)
         => fixSent.model = "flash"

\* C19 witness: a fix request at exactly 500 characters and 5 files was
\* sent to the cheap model
C19_Witness ==
  /\ fixSent.called
  /\ req.buildErrors.length = 500
  /\ Len(req.files.keys) = 5
  /\ fixSent.model = "flash"
  /\ fixSent.profile = "precision"

\* C20 as stated: for every fix request that passes validation, the set of
\* files placed in the fix prompt is not empty.
C20_Original ==
  fixSent.called => fixSent.files # {}

\* C15 as stated: requests in flight never collide on disk: the build
\* directory a request writes to is used by no other request in flight,
\* also for requests of the same millisecond and for requests that supply
\* a buildId.
C15_Original ==
  \A r1 \in Requests, r2 \in Requests :
    (/\ r1 # r2
     /\ builds[r1].phase = "compiling"
     /\ builds[r2].phase = "compiling")
      => builds[r1].outputDir # builds[r2].outputDir

\* the archive a success names is under target/, is not the pre-shade copy,
\* and some Maven invocation of the run exited with status zero (a run that
\* recorded a result had no invocation that did not return)
PackagedArtifact(jarPath) ==
  /\ jarPath \in target
  /\ jarPath # "original-plugin.jar"
  /\ ~allMvnFailed

\* C16 as stated: every result reported as a success (build_result.json
\* with success = true, CompileResult.success = true) comes with a packaged
\* artifact found under the target directory that is not an "original-*"
\* pre-shade artifact and follows a compiler invocation that exited with
\* status zero.
C16_Original ==
  /\ RecordedSuccess => PackagedArtifact(resultFile.jarPath)
  /\ (compilationResult.resolved /\ compilationResult.success)
       => PackagedArtifact(compilationResult.jarPath)

NamedInError ==
  {p \in ObjectKeys(req.files) :
     \E n \in req.buildErrors.names : toLowerCase(n) = toLowerCase(p)}

\* C21: the files the relevance filter hands to the fixer are files of the
\* submitted tree, each with the content it was submitted with; every file
\* whose name occurs in the error text, in whatever case, is among them;
\* and when the error text names none of them they are the whole tree.
C21_RelevanceFilter ==
  fixSent.called =>
    /\ fixSent.files \subseteq ObjectKeys(req.files)
    /\ DOMAIN fixSent.section = fixSent.files
    /\ \A p \in fixSent.files : fixSent.section[p] = contentOf(req.files, p)
    /\ NamedInError \subseteq fixSent.files
    /\ (NamedInError = {} => fixSent.files = ObjectKeys(req.files))

\* C21 witness: the error text names Main.java in upper case and the fixer
\* got Main.java without the manifest that was submitted with it
C21_Witness ==
  /\ fixSent.called
  /\ "MAIN.JAVA" \in req.buildErrors.names
  /\ ObjectKeys(req.files) = {"plugin.yml", "Main.java"}
  /\ fixSent.files = {"Main.java"}
  /\ fixSent.section["Main.java"] = <<"Main.java">>

\* C22 as stated: whenever the submitted tree contains pom.xml, the files
\* sent to the fixer include it, whether or not the error text names it.
C22_Original ==
  (fixSent.called /\ "pom.xml" \in ObjectKeys(req.files))
    => "pom.xml" \in fixSent.files

(* ---------------------------------------------------------------------- *)
(* Properties of the extraction of file blocks                             *)
(* ---------------------------------------------------------------------- *)

\* the k-th smallest element of a set of positions
Nth(S, k) == CHOOSE i \in S : Cardinality({j \in S : j < i}) = k - 1

\* the positions of a token in a text
PositionsOf(text, tok) == {i \in 1..Len(text) : text[i] = tok}

\* the markers of a text, in their order
MarkersOf(text) == SelectSeq(text, LAMBDA c : c \in {FILE_START, DASHES, FILE_END})

\* a text whose markers are those of complete blocks, one after the other
WellFormed(text) ==
  LET m == MarkersOf(text)
  IN  /\ Len(m) % 3 = 0
      /\ \A i \in 1..Len(m) :
           m[i] = <<FILE_START, DASHES, FILE_END>>[((i - 1) % 3) + 1]

\* the k-th block of a well-formed text: the path and the body as written
BlockAt(text, k) ==
  LET d == Nth(PositionsOf(text, DASHES), k)
  IN  [path |-> Sub(text, Nth(PositionsOf(text, FILE_START), k) + 1, d - 1),
       body |-> Sub(text, d + 1, Nth(PositionsOf(text, FILE_END), k) - 1)]

\* the number of blocks of a well-formed text
BlockCount(text) == Cardinality(PositionsOf(text, FILE_END))

\* the last block of a well-formed text written under a path
LastBlockOf(text, filePath) ==
  LET ks == {k \in 1..BlockCount(text) : trim(BlockAt(text, k).path) = filePath}
  IN  BlockAt(text, CHOOSE k \in ks : \A j \in ks : j <= k)

\* C23 as stated: for a well-formed text of N blocks the extraction gives
\* one entry per block (N entries when the paths differ), under the trimmed
\* path, in the order of the text, with the content of the last block
\* written under the path, and that content is trimmed; for a text without
\* a block it gives the empty tree.
C23_Original ==
  (fnArg.fn = "extract" /\ fnRes.done /\ WellFormed(fnArg.text)) =>
    LET text == fnArg.text
        N == BlockCount(text)
        pathAt(k) == trim(BlockAt(text, k).path)
        firsts == {k \in 1..N : \A j \in 1..(k - 1) : pathAt(j) # pathAt(k)}
    IN  /\ Len(fnRes.files) = Cardinality(firsts)
        /\ \A i \in 1..Len(fnRes.files) :
             /\ fnRes.files[i].path = pathAt(Nth(firsts, i))
             /\ fnRes.files[i].content
                  = fixJavaCleanup(fnRes.files[i].path,
                      cleanContent(trim(LastBlockOf(text, fnRes.files[i].path).body)))
             /\ trim(fnRes.files[i].content) = fnRes.files[i].content
        /\ (N = 0 => fnRes.files = <<>>)

\* a text without its unterminated blocks: a start marker that the next
\* start marker (or the end of the text) follows before any end marker is
\* removed with everything up to that point
RECURSIVE dropUnterminated(_, _)
dropUnterminated(text, i) ==
  IF i > Len(text) THEN <<>>
  ELSE IF text[i] # FILE_START THEN <<text[i]>> \o dropUnterminated(text, i + 1)
  ELSE LET following(tok) ==
             {j \in (i + 1)..Len(text) : text[j] = tok} \cup {Len(text) + 1}
           nextStart == Nth(following(FILE_START), 1)
           nextEnd == Nth(following(FILE_END), 1)
       IN  IF nextEnd < nextStart
             THEN Sub(text, i, nextEnd) \o dropUnterminated(text, nextEnd + 1)
             ELSE dropUnterminated(text, nextStart)

\* C24 as stated: an unterminated block is skipped: the extraction gives
\* what it gives for the text without that block; the block adds no entry
\* and changes neither the path nor the content of a block that follows.
C24_Original ==
  (fnArg.fn = "extract" /\ fnRes.done) =>
    fnRes.files = extractUpdatedFiles(dropUnterminated(fnArg.text, 1), 1, <<>>)

(* ---------------------------------------------------------------------- *)
(* Properties of the processing of the extracted files                     *)
(* ---------------------------------------------------------------------- *)

\* C25 as stated: the processing is idempotent: for every path, content
\* and plugin name, processing the processed content gives the processed
\* content again, in the create route and in the fix route.
C25_Original ==
  (/\ fnArg.fn = "process"
   /\ fnArg.route \in {"create", "fix"}
   /\ fnRes.done
   /\ fnRes.passes = 2)
    => fnRes.content = fnRes.once

\* a version field: a "version:" that is not the end of "api-version:"
HasVersionField(content) ==
  \E i \in 1..Len(content) :
    content[i] = "version:" /\ (i = 1 \/ content[i - 1] # "api-")

\* an api-version field
HasApiVersionField(content) == includes(content, <<"api-", "version:">>)

\* C26 as stated: after the processing of a manifest, whatever its content
\* was, the content has a version field and an api-version field.
C26_Original ==
  (/\ fnArg.fn = "process"
   /\ endsWith(fnArg.filePath, <<"plugin.yml">>)
   /\ fnRes.done)
    => HasVersionField(fnRes.content) /\ HasApiVersionField(fnRes.content)

(* ---------------------------------------------------------------------- *)
(* Properties of the middleware and of the responses                       *)
(* ---------------------------------------------------------------------- *)

\* C27 as stated: a request is passed to the route handler if and only if
\* its Authorization header is "Bearer " followed by exactly the configured
\* secret; every other request gets 401 with a generic message and nothing
\* else happens.
C27_Original ==
  (fnArg.fn = "auth" /\ fnRes.done) =>
    /\ fnRes.auth.next
         <=> (/\ fnArg.API_TOKEN # <<>>
              /\ fnArg.authHeader = <<"Bearer", " ">> \o fnArg.API_TOKEN)
    /\ ~fnRes.auth.next =>
         /\ fnRes.auth.code = 401
         /\ fnRes.auth.body.message \in {"Invalid token", "Authentication required"}
         /\ Idle

\* the request the handler has just taken lacks a required field: the
\* prompt of a create request, the buildErrors or the files of a fix request
MissingField(r) ==
  /\ r.present
  /\ IF "buildErrors" \in DOMAIN r
       THEN r.buildErrors.length = 0 \/ ~r.files.given
       ELSE ~r.prompt

\* C28: the step in which a handler takes a request that lacks a required
\* field answers 400 and changes nothing else: the cache entries of both
\* routes, the number of model calls, the prompt sent to the fixer, the
\* compilation result, the build script, the disk; also when the create
\* request asks for async mode.
C28_BadRequest ==
  [][(rpc = "idle" /\ rpc' # "idle" /\ MissingField(req')) =>
       /\ resp'.sent /\ resp'.code = 400 /\ ~resp'.success
       /\ rpc' = "done"
       /\ pluginCache' = pluginCache
       /\ fixCache' = fixCache
       /\ modelCalls' = 0
       /\ ~fixSent'.called
       /\ compilationResult' = compilationResult
       /\ UNCHANGED scriptState]_vars

\* C28 witness: a create request without prompt that asks for async mode
\* and compilation was answered 400 while the cache held the entry of an
\* earlier request
C28_Witness ==
  /\ rpc = "done"
  /\ resp.code = 400
  /\ ~IsFixRequest
  /\ ~req.prompt /\ req.async /\ req.compile
  /\ pluginCache.hit
  /\ modelCalls = 0
  /\ spc = "none"

\* C29 as stated: every JSON response, on every path (success, cache hit,
\* 400, 401, 404, 500), is an envelope with a boolean success field.
C29_Original ==
  /\ resp.sent => ("success" \in DOMAIN resp /\ resp.success \in BOOLEAN)
  /\ (fnArg.fn = "auth" /\ fnRes.done /\ ~fnRes.auth.next) =>
       ("success" \in DOMAIN fnRes.auth.body
          /\ fnRes.auth.body.success \in BOOLEAN)

(* ---------------------------------------------------------------------- *)
(* C30                                                                     *)
(* ---------------------------------------------------------------------- *)

\* C30: whatever the text of the file-list answer (an array that does not
\* parse, an array with an item that is not a string, an empty array, no
\* array), the extraction ends with a result: a list that is not empty, all
\* of whose items are strings, and that is the default list whenever the
\* body of the try threw.
C30_FileList ==
  (fnArg.fn = "filelist" /\ fnRes.done) =>
    LET pluginLower == toLowerCaseText(fnArg.pluginName)
    IN  /\ fnRes.fileStructure # <<>>
        /\ \A i \in 1..Len(fnRes.fileStructure) :
             fnRes.fileStructure[i].type = "string"
        /\ tryFileStructure(fnArg.fileListText, pluginLower).threw =>
             /\ fnRes.usedDefault
             /\ fnRes.fileStructure = defaultStructure(pluginLower)

\* an empty array has been answered, and the list is the default one
C30_Witness ==
  /\ fnArg.fn = "filelist"
  /\ fnRes.done
  /\ fnArg.fileListText = <<"[", "]">>
  /\ fnRes.usedDefault

(* ---------------------------------------------------------------------- *)
(* C31                                                                     *)
(* ---------------------------------------------------------------------- *)

\* the issue is not of the recognised pattern: its description does not
\* mention a package, or its fix names no package
Unrecognised(issue) ==
  \/ ~includes(toLowerCaseText(issue.issue), <<"package">>)
  \/ correctPackageOf(issue.fix) = <<>>

\* C31: when no issue of the answer is of the recognised pattern, every file
\* of the tree is unchanged; and whatever the issues, the tree keeps its
\* paths.
C31_Original ==
  (fnArg.fn = "issues" /\ fnRes.done) =>
    /\ DOMAIN fnRes.files = DOMAIN fnArg.files
    /\ (\A k \in 1..Len(fnArg.issues) : Unrecognised(fnArg.issues[k])) =>
         fnRes.files = fnArg.files

(* ---------------------------------------------------------------------- *)
(* C32                                                                     *)
(* ---------------------------------------------------------------------- *)

\* C32: a request whose key is stored and whose time is not over is
\* answered with the stored tree, and the store is left as it is; a request
\* whose key is not stored, or is stored with its time over, runs the
\* pipeline again; the set that ends the pipeline puts the new tree under
\* the key in place of what was there, with a new time, and leaves the
\* other keys alone.
C32_CacheRoundTrip ==
  [][/\ (/\ rpc = "idle" /\ rpc' # "idle"
         /\ ~MissingField(req')
         /\ ("buildErrors" \in DOMAIN req' \/ ~req'.async)) =>
          LET fix == "buildErrors" \in DOMAIN req'
              key == IF fix THEN cacheKey(req'.buildErrors, req'.files.keys)
                     ELSE CreateKey
              stored == IF fix THEN key \in DOMAIN fixCache ELSE pluginCache.hit
              value == IF fix THEN fixCache[key] ELSE pluginCache.files
          IN  IF stored /\ expires[key] >= now
                THEN /\ resp'.sent /\ resp'.code = 200
                     /\ resp'.data = value
                     /\ modelCalls' = 0
                     /\ UNCHANGED <<fixCache, pluginCache, expires>>
              ELSE IF fix
                THEN /\ fixSent'.called
                     /\ resp'.code = 200 =>
                          /\ fixCache'[key] = resp'.data
                          /\ expires'[key] = now + CACHE_TTL
                          /\ DOMAIN fixCache' = DOMAIN fixCache \cup {key}
                          /\ \A k \in DOMAIN fixCache \ {key} :
                               fixCache'[k] = fixCache[k] /\ expires'[k] = expires[k]
                ELSE rpc' = "name" /\ ~resp'.sent
     /\ (rpc = "consistency" /\ rpc' # "consistency") =>
          /\ pluginCache' = [hit |-> TRUE, files |-> files]
          /\ expires'[CreateKey] = now + CACHE_TTL
          /\ UNCHANGED fixCache]_vars

\* C32 witness: a fix request found its key stored with its time over, ran
\* the pipeline, and its answer is what the store now holds under the key
C32_Witness ==
  /\ rpc = "done"
  /\ IsFixRequest
  /\ staleOnArrival
  /\ resp.code = 200
  /\ ~cachedOnArrival
  /\ fixCache[cacheKey(req.buildErrors, req.files.keys)] = resp.data

(* ---------------------------------------------------------------------- *)
(* C33                                                                     *)
(* ---------------------------------------------------------------------- *)

\* the values of the name key of a manifest: a line that begins with "name:"
nameFields(content) ==
  {trim(Sub(content, i + 1, lineEnd(content, i))) :
     i \in {j \in 1..Len(content) :
              content[j] = "name:" /\ (j = 1 \/ content[j - 1] = "\n")}}

\* a create request without compilation was answered with a generated tree
GeneratedAnswer ==
  /\ rpc = "done"
  /\ req.present /\ ~IsFixRequest
  /\ ~req.compile
  /\ resp.code = 200
  /\ genPath # "none"

\* C33 as stated: the tree a create request without compilation is answered
\* with holds plugin.yml and a source file, and the name key of plugin.yml
\* is the plugin name, whether the tree came from the multi-file answer or
\* from the per-file fallback
C33_Original ==
  GeneratedAnswer =>
    /\ "plugin.yml" \in resp.data
    /\ "Main.java" \in resp.data
    /\ nameFields(manifest) = {RoutePluginName}

(* ---------------------------------------------------------------------- *)
(* C34                                                                     *)
(* ---------------------------------------------------------------------- *)

\* the text of an array yields a valid list: it parses to an array of
\* strings that is not empty
yieldsList(jsonArray) ==
  /\ jsonArray # <<>>
  /\ JSON_parse(jsonArray).ok
  /\ JSON_parse(jsonArray).items # <<>>
  /\ \A i \in 1..Len(JSON_parse(jsonArray).items) :
       JSON_parse(jsonArray).items[i].type = "string"

\* the list a text of an array that yields one gives
listOf(jsonArray, pluginLower) ==
  [i \in 1..Len(JSON_parse(jsonArray).items) |->
     StringItem(fixPath(JSON_parse(jsonArray).items[i].value, pluginLower))]

\* C34 as stated: the list is the one of the first of the standard pattern,
\* the bracket scan and the extension scan that yields a valid list, and
\* the default list exactly when none of the three does
C34_Original ==
  (fnArg.fn = "filelist" /\ fnRes.done) =>
    LET text == fnArg.fileListText
        pluginLower == toLowerCaseText(fnArg.pluginName)
        standard == JSON_ARRAY_PATTERN_exec(text)
        bracketed == bracketedContent(text)
        byExtension == unique(extensionMatches(text))
    IN  IF yieldsList(standard)
          THEN ~fnRes.usedDefault
               /\ fnRes.fileStructure = listOf(standard, pluginLower)
        ELSE IF yieldsList(bracketed)
          THEN ~fnRes.usedDefault
               /\ fnRes.fileStructure = listOf(bracketed, pluginLower)
        ELSE IF byExtension # <<>>
          THEN ~fnRes.usedDefault
               /\ fnRes.fileStructure =
                    [i \in 1..Len(byExtension) |-> StringItem(byExtension[i])]
        ELSE fnRes.usedDefault

(* ---------------------------------------------------------------------- *)
(* C35                                                                     *)
(* ---------------------------------------------------------------------- *)

\* C35: while the create request waits for its script, the fix route can
\* take every request the script has sent, and as long as the script has
\* not come to a Maven run that does not return, the script, the fix route
\* or the close handler can take a step: the create request and the
\* requests of its script never wait for each other.
C35_NoDeadlock ==
  /\ (rpc = "cp_running" /\ nested.state = "sent") => ENABLED FixServe
  /\ (rpc = "cp_running" /\ spc # "hung") => ENABLED NestedNext

\* C35 witness: the script waits for curl, and the fix route has answered
\* its request while the create request waits for the script
C35_Witness ==
  /\ rpc = "cp_running"
  /\ spc = "curl"
  /\ nested.state = "answered"
  /\ lastEvent = "fix_served"

(* ---------------------------------------------------------------------- *)
(* C36                                                                     *)
(* ---------------------------------------------------------------------- *)

\* the script was in its retry loop when the status was given
AnsweredInLoop ==
  statusAnswer.during \in {"loop", "request", "rebuild", "after_loop"}

\* the script had ended when the status was given
AnsweredAfterRun == statusAnswer.during \in {"exited", "closed"}

\* C36 as stated: "failed" is answered only when the script has ended (and
\* no archive is there), "completed" only when the script has ended with
\* its archive, and a status asked for while the script is in its retry
\* loop is "pending"
C36_Original ==
  statusAnswer # NoStatus =>
    /\ statusAnswer.status = "failed" => AnsweredAfterRun
    /\ statusAnswer.status = "completed" => AnsweredAfterRun
    /\ AnsweredInLoop => statusAnswer.status = "pending"

(* ---------------------------------------------------------------------- *)
(* C37                                                                     *)
(* ---------------------------------------------------------------------- *)

\* the key of the request the script has in flight
nestedKey == cacheKey(nested.body.buildErrors, nested.body.files.keys)

ArtifactOfThisRun == packageCalls > 0 /\ target # {}

\* C38 as stated: compilePlugin resolves with success only when the script
\* it started has produced an archive, whatever an earlier run with the
\* same buildId has left in the build directory
C38_Original ==
  (compilationResult.resolved /\ compilationResult.success) => ArtifactOfThisRun

\* the content of a file of a tree, Undefined when the tree has no such file
propertyOf(obj, path) ==
  IF path \in pathsOf(obj)
    THEN (CHOOSE e \in {obj[i] : i \in 1..Len(obj)} : e.path = path).content
    ELSE Undefined

\* C39: validatePluginFiles returns a tree with exactly the paths of its
\* input and leaves its input as it was; a path of the validation answer
\* is applied only when the tree has it; when the validation call fails,
\* only the content of plugin.yml may differ from the input.
C39_Original ==
  (fnArg.fn = "validate" /\ fnRes.done) =>
    /\ pathsOf(fnRes.validatedFiles) = pathsOf(fnArg.files)
    /\ fnRes.files = fnArg.files
    /\ fnArg.validation.threw =>
         \A p \in pathsOf(fnArg.files) :
           endsWith(p, <<"plugin.yml">>)
             \/ propertyOf(fnRes.validatedFiles, p) = propertyOf(fnArg.files, p)

====
